---- MODULE Spec2Model ----
(***************************************************************************)
(* A model of the govtrack entity repository (core/entity.js), relation    *)
(* engine (core/relation.js), identifier service (core/id.js) and record   *)
(* store (core/storage.js).  The entity store is the sequence of records   *)
(* of entities.jsonl in file order.  Every operation is a pure operator    *)
(* from a store to an outcome [store, result]; the actions apply them.     *)
(***************************************************************************)
EXTENDS Integers, Sequences, FiniteSets, TLC

VARIABLES
  store,        \* the records of entities.jsonl, in file order
  governments,  \* the records of governments.jsonl, in file order
  writers,      \* for each writer process inside a mutating operation: the
                \* operation, the changes it has computed, the records it
                \* has read and its position in the operation
  returned,     \* the changes of the operations that returned success and
                \* that no later successful operation has replaced
  call          \* a call of a function of its arguments alone, and what it
                \* returned

vars == <<store, governments, writers, returned, call>>

(***************************************************************************)
(* Bounds of the model.                                                    *)
(***************************************************************************)
MaxEntities == 2     \* Spec: create is not called on a store of this many records
MaxLinked == 3       \* SpecLinked: the same
MaxChanges == 1      \* Spec: no call is made that leaves more history entries
                     \* than this in the store, the "created" entries not counted
MaxLinkedChanges == 2  \* SpecLinked: the same
MaxFieldEntities == 2  \* SpecFields: as MaxEntities
MaxFieldChanges == 1   \* SpecFields: as MaxChanges
MaxGovernments == 1    \* SpecFields: government.create is not called on a
                       \* government store of this many records
MaxIdEntities == 4     \* SpecIds: as MaxEntities
MaxSlugGovernments == 3  \* SpecSlugs: as MaxGovernments
MaxTextLength == 3     \* SpecText: the texts passed to calculateSimilarity have
                       \* at most this many characters
MaxTextWords == 3      \* SpecText: the texts passed to classifyText have at
                       \* most this many words
MaxWriters == 2        \* SpecWriters: the number of writer processes
MaxWriterChanges == 2  \* SpecWriters: as MaxChanges

NULL == "null"       \* JavaScript null / undefined
Now == "now"         \* new Date().toISOString()

(***************************************************************************)
(* Program constants.                                                      *)
(***************************************************************************)
ENTITY_TYPES == <<"goal", "problem", "idea", "action">>

ENTITY_STATUSES ==
  [goal    |-> <<"active", "deprecated">>,
   problem |-> <<"unacknowledged", "acknowledged", "being_addressed", "resolved">>,
   idea    |-> <<"proposed", "under_review", "accepted", "rejected", "superseded">>,
   action  |-> <<"open", "in_progress", "blocked", "completed", "cancelled">>]

RELATION_TYPES ==
  [threatens   |-> [from |-> "problem", to |-> "goal"],
   addresses   |-> [from |-> "idea",    to |-> "problem"],
   pursues     |-> [from |-> "idea",    to |-> "goal"],
   complements |-> [from |-> "idea",    to |-> "idea"],
   conflicts   |-> [from |-> "idea",    to |-> "idea"],
   requires    |-> [from |-> "idea",    to |-> "idea"],
   similar     |-> [from |-> "idea",    to |-> "idea"],
   duplicate   |-> [from |-> "idea",    to |-> "idea"],
   supersedes  |-> [from |-> "idea",    to |-> "idea"],
   alternative |-> [from |-> "idea",    to |-> "idea"],
   extends     |-> [from |-> "idea",    to |-> "idea"],
   implements  |-> [from |-> "action",  to |-> "idea"],
   depends_on  |-> [from |-> "action",  to |-> "action"],
   blocks      |-> [from |-> "action",  to |-> "action"]]

PRIORITIES == {0, 1, 2, 3, 4}

DEPENDENCY_RELATIONS == <<"depends_on", "requires", "blocks">>

ENTITY_PREFIXES ==
  [goal |-> "gg", problem |-> "gp", idea |-> "gd", action |-> "ga",
   government |-> "gt", issue |-> "gi"]

Range(f) == {f[i] : i \in DOMAIN f}

includes(seq, x) == \E i \in DOMAIN seq : seq[i] = x

has(rec, f) == f \in DOMAIN rec

\* JavaScript truthiness of an optional string field.
truthy(rec, f) == has(rec, f) /\ rec[f] # NULL /\ rec[f] # ""

\* String.prototype.trim on the titles, bodies and names the model passes in.
trim(str) ==
  CASE str = " pothole " -> "pothole"
    [] str = "  " -> ""
    [] str = " Travis County " -> "Travis County"
    [] OTHER -> str

(***************************************************************************)
(* core/id.js                                                              *)
(***************************************************************************)
getPrefixForType(type) ==
  IF type \in DOMAIN ENTITY_PREFIXES THEN ENTITY_PREFIXES[type] ELSE "ge"

\* The values sha256(...).digest('hex').substring(0, n) can take: one hex
\* string of each length the code asks for.
HexHashes(n) ==
  CASE n = 4 -> {"a1b2"}
    [] n = 5 -> {"a1b2c"}
    [] n = 6 -> {"a1b2c3"}
    [] n = 8 -> {"a1b2c3d4"}
    [] OTHER -> {}

maxAttempts == 5
firstHashLength == 4
widenedHashLength == 5
fallbackHashLength == 8
widenAfterAttempt == 2

\* The identifiers generateId can return from the given attempt on: each
\* attempt draws a hash of the current length and returns the identifier
\* unless existsCheck reports it; after maxAttempts the fallback identifier
\* is returned unchecked.
RECURSIVE generateIdFrom(_, _, _, _)
generateIdFrom(prefix, existing, attempt, hashLength) ==
  IF attempt >= maxAttempts
  THEN {prefix \o "-" \o h : h \in HexHashes(fallbackHashLength)}
  ELSE LET drawn == {prefix \o "-" \o h : h \in HexHashes(hashLength)}
           free == drawn \ existing
           nextLength == IF attempt = widenAfterAttempt THEN widenedHashLength
                         ELSE hashLength
       IN  free \cup
           (IF drawn \cap existing # {}
            THEN generateIdFrom(prefix, existing, attempt + 1, nextLength)
            ELSE {})

generateId(prefix, existing) ==
  generateIdFrom(prefix, existing, 0, firstHashLength)

\* generateSlug on the names the model passes in: lower case, trimmed, runs
\* of other characters replaced by a dash, leading and trailing dash dropped.
generateSlug(name) ==
  CASE name = "Travis County" -> "travis-county"
    [] name = " Travis County " -> "travis-county"
    [] name = "Travis County!!!" -> "travis-county"
    [] name = "Austin" -> "austin"
    [] OTHER -> name

slugCounterStart == 2
slugCounterLimit == 1000
slugSuffixLength == 6

\* The while loop of makeSlugUnique from the given counter on, then the
\* random suffix; `taken` is the set of slugs existsCheck reports.  The
\* loop returns at the first counter below the limit that it reaches with
\* a slug existsCheck does not report.
makeSlugUniqueFrom(baseSlug, taken, counter) ==
  LET returning == {k \in counter..(slugCounterLimit - 1) :
                      (baseSlug \o "-" \o ToString(k)) \notin taken}
  IN  IF returning # {}
      THEN {baseSlug \o "-" \o ToString(CHOOSE k \in returning :
                                          \A j \in returning : k <= j)}
      ELSE {baseSlug \o "-" \o h : h \in HexHashes(slugSuffixLength)}

\* makeSlugUnique that appends the first counter without asking existsCheck.
makeSlugUniqueUnchecked(baseSlug, taken) ==
  IF baseSlug \notin taken THEN {baseSlug}
  ELSE {baseSlug \o "-" \o ToString(slugCounterStart)}

makeSlugUnique(baseSlug, taken) ==
  IF baseSlug \notin taken THEN {baseSlug}
  ELSE makeSlugUniqueFrom(baseSlug, taken, slugCounterStart)

\* isValidId: prefix, a dash and four to eight hex digits.
isValidId(id, prefix) ==
  \E n \in firstHashLength..fallbackHashLength :
    id \in {prefix \o "-" \o h : h \in HexHashes(n)}

(***************************************************************************)
(* core/storage.js                                                         *)
(***************************************************************************)
readAll(s) == s

exists(s, id) == \E i \in DOMAIN s : s[i].id = id

\* findById: the first record with the id (only used when exists(s, id)).
findById(s, id) ==
  s[CHOOSE i \in DOMAIN s : s[i].id = id /\ \A j \in 1..(i - 1) : s[j].id # id]

appendRecord(s, record) == Append(s, record)

\* {...record, ...updates}
merge(record, updates) ==
  [f \in DOMAIN record \cup DOMAIN updates |->
     IF f \in DOMAIN updates THEN updates[f] ELSE record[f]]

\* updateRecord that writes the found record without the relations it had.
updateRecordFromScratch(s, id, updates) ==
  [i \in DOMAIN s |->
     IF s[i].id = id THEN merge([s[i] EXCEPT !.relations = <<>>], updates) ELSE s[i]]

\* updateRecord rewrites every record that carries the id.
updateRecord(s, id, updates) ==
  [i \in DOMAIN s |-> IF s[i].id = id THEN merge(s[i], updates) ELSE s[i]]

\* deleteRecord that also drops the edges other records hold to the id.
deleteRecordCascading(s, id) ==
  LET kept == SelectSeq(s, LAMBDA r : r.id # id)
  IN  [i \in DOMAIN kept |->
        [kept[i] EXCEPT !.relations = SelectSeq(@, LAMBDA rel : rel.target # id)]]

deleteRecord(s, id) == SelectSeq(s, LAMBDA r : r.id # id)

findByRelation(s, targetId, relationType) ==
  SelectSeq(s, LAMBDA record :
    \E i \in DOMAIN record.relations :
      /\ record.relations[i].target = targetId
      /\ (relationType # NULL => record.relations[i].type = relationType))

\* findBy: the first record whose field has the value (only used when one has).
findBy(s, field, value) ==
  s[CHOOSE i \in DOMAIN s :
      s[i][field] = value /\ \A j \in 1..(i - 1) : s[j][field] # value]

\* isUnique without an excluded id.
isUnique(s, field, value) == ~\E i \in DOMAIN s : s[i][field] = value

Outcome(s, r) == [store |-> s, result |-> r]

(***************************************************************************)
(* core/government.js                                                      *)
(***************************************************************************)
GOVERNMENT_TYPES == <<"city", "county", "state", "federal", "district", "other">>

maxNameLength == 200

\* /^[A-Z]{2}$/ on the state codes the model passes in.
matchesStateCode(str) == str \in {"TX", "CA"}

governmentCreateError(data) ==
  IF ~truthy(data, "name") THEN "NameRequired"
  ELSE IF Len(data.name) > maxNameLength THEN "NameTooLong"
  ELSE IF truthy(data, "type") /\ ~includes(GOVERNMENT_TYPES, data.type)
       THEN "InvalidGovernmentType"
  ELSE IF truthy(data, "state") /\ ~matchesStateCode(data.state) THEN "InvalidState"
  ELSE "ok"

\* The outcomes of government.create on the government store g: one per slug
\* makeSlugUnique and identifier generateId can return.
governmentCreate(g, data) ==
  IF governmentCreateError(data) # "ok" THEN {Outcome(g, governmentCreateError(data))}
  ELSE LET base == IF truthy(data, "slug") THEN data.slug ELSE generateSlug(data.name)
           taken == {g[i].slug : i \in DOMAIN g}
       IN  {Outcome(appendRecord(g,
                      [id |-> id,
                       slug |-> slug,
                       name |-> trim(data.name),
                       type |-> IF truthy(data, "type") THEN data.type ELSE "city",
                       state |-> IF truthy(data, "state") THEN data.state ELSE NULL,
                       status |-> "active"]), "ok") :
              slug \in makeSlugUnique(base, taken),
              id \in generateId(ENTITY_PREFIXES.government, {g[i].id : i \in DOMAIN g})}

\* government.find returns a record (not null): by id when idOrSlug has the
\* form of a government id, by slug otherwise.
governmentFound(g, idOrSlug) ==
  IF isValidId(idOrSlug, ENTITY_PREFIXES.government) THEN exists(g, idOrSlug)
  ELSE \E i \in DOMAIN g : g[i].slug = idOrSlug

governmentFind(g, idOrSlug) ==
  IF isValidId(idOrSlug, ENTITY_PREFIXES.government) THEN findById(g, idOrSlug)
  ELSE findBy(g, "slug", idOrSlug)

(***************************************************************************)
(* core/entity.js: validation                                              *)
(***************************************************************************)
maxTitleLength == 500
maxBodyLength == 10000
defaultPriority == 2

\* Each validator yields "ok" or the error it throws.
validateTitle(title) ==
  IF title = NULL \/ title = "" THEN "TitleRequired"
  ELSE IF Len(title) > maxTitleLength THEN "TitleTooLong"
  ELSE "ok"

validateBody(body) ==
  IF body # NULL /\ body # "" /\ Len(body) > maxBodyLength THEN "BodyTooLong"
  ELSE "ok"

validateType(type) ==
  IF includes(ENTITY_TYPES, type) THEN "ok" ELSE "InvalidType"

\* validateStatus accepting a status of any entity type.
validateStatusAnyType(status, type) ==
  IF type \in DOMAIN ENTITY_STATUSES
     /\ ~\E other \in DOMAIN ENTITY_STATUSES : includes(ENTITY_STATUSES[other], status)
  THEN "InvalidStatus"
  ELSE "ok"

validateStatus(status, type) ==
  IF type \in DOMAIN ENTITY_STATUSES /\ ~includes(ENTITY_STATUSES[type], status)
  THEN "InvalidStatus"
  ELSE "ok"

\* A priority argument is a JavaScript number or string.
Number(n) == [number |-> n]

String(str) == [string |-> str]

decimalDigits == <<"0", "1", "2", "3", "4", "5", "6", "7", "8", "9">>

\* priority.match(/^P?(\d)$/i) succeeds.
matchesPriority(str) ==
  \E i \in DOMAIN decimalDigits :
    str \in {decimalDigits[i], "P" \o decimalDigits[i], "p" \o decimalDigits[i]}

\* parseInt(match[1], 10)
parsePriority(str) ==
  (CHOOSE i \in DOMAIN decimalDigits :
     str \in {decimalDigits[i], "P" \o decimalDigits[i], "p" \o decimalDigits[i]}) - 1

\* The value validatePriority tests and returns.
normalizePriority(priority) ==
  IF has(priority, "string") /\ matchesPriority(priority.string)
  THEN Number(parsePriority(priority.string))
  ELSE priority

validatePriority(priority) ==
  IF has(normalizePriority(priority), "number")
     /\ normalizePriority(priority).number \in PRIORITIES
  THEN "ok" ELSE "InvalidPriority"


\* validateRelation with the comparison of the target's type left out.
validateRelationNoTargetType(s, relation, sourceType) ==
  IF relation.type = NULL \/ relation.target = NULL THEN "RelationIncomplete"
  ELSE IF relation.type \notin DOMAIN RELATION_TYPES THEN "InvalidRelationType"
  ELSE IF RELATION_TYPES[relation.type].from # sourceType THEN "InvalidSourceType"
  ELSE IF ~exists(s, relation.target) THEN "TargetNotFound"
  ELSE "ok"

\* validateRelation with the comparison of the source's type left out.
validateRelationNoSourceType(s, relation, sourceType) ==
  IF relation.type = NULL \/ relation.target = NULL THEN "RelationIncomplete"
  ELSE IF relation.type \notin DOMAIN RELATION_TYPES THEN "InvalidRelationType"
  ELSE IF ~exists(s, relation.target) THEN "TargetNotFound"
  ELSE IF RELATION_TYPES[relation.type].to # findById(s, relation.target).type
       THEN "InvalidTargetType"
  ELSE "ok"


validateRelation(s, relation, sourceType) ==
  IF relation.type = NULL \/ relation.target = NULL THEN "RelationIncomplete"
  ELSE IF relation.type \notin DOMAIN RELATION_TYPES THEN "InvalidRelationType"
  ELSE IF RELATION_TYPES[relation.type].from # sourceType THEN "InvalidSourceType"
  ELSE IF ~exists(s, relation.target) THEN "TargetNotFound"
  ELSE IF RELATION_TYPES[relation.type].to # findById(s, relation.target).type
       THEN "InvalidTargetType"
  ELSE "ok"

\* The loop over a relations array: the first error thrown, or "ok".
validateRelations(s, relations, sourceType) ==
  IF \A i \in DOMAIN relations : validateRelation(s, relations[i], sourceType) = "ok"
  THEN "ok"
  ELSE validateRelation(s,
         relations[CHOOSE i \in DOMAIN relations :
           /\ validateRelation(s, relations[i], sourceType) # "ok"
           /\ \A j \in 1..(i - 1) : validateRelation(s, relations[j], sourceType) = "ok"],
         sourceType)

(***************************************************************************)
(* core/entity.js: create                                                  *)
(***************************************************************************)
createError(s, g, type, data) ==
  IF validateType(type) # "ok" THEN validateType(type)
  ELSE IF validateTitle(IF has(data, "title") THEN data.title ELSE NULL) # "ok"
       THEN validateTitle(IF has(data, "title") THEN data.title ELSE NULL)
  ELSE IF has(data, "body") /\ validateBody(data.body) # "ok" THEN "BodyTooLong"
  ELSE IF truthy(data, "gov_id") /\ ~governmentFound(g, data.gov_id)
       THEN "GovernmentNotFound"
  ELSE IF has(data, "priority") /\ validatePriority(data.priority) # "ok"
       THEN "InvalidPriority"
  ELSE IF has(data, "relations") /\ validateRelations(s, data.relations, type) # "ok"
       THEN validateRelations(s, data.relations, type)
  ELSE IF truthy(data, "status") /\ validateStatus(data.status, type) # "ok"
       THEN "InvalidStatus"
  ELSE "ok"

\* createEntity with "open" as the default status of every type.
createEntityOpenByDefault(g, type, data, id) ==
  LET base ==
        [id |-> id,
         type |-> type,
         title |-> trim(data.title),
         body |-> IF truthy(data, "body") /\ trim(data.body) # ""
                  THEN trim(data.body) ELSE NULL,
         priority |-> IF has(data, "priority") THEN normalizePriority(data.priority).number
                      ELSE defaultPriority,
         status |-> IF truthy(data, "status") THEN data.status
                    ELSE "open",
         gov_id |-> IF truthy(data, "gov_id") THEN governmentFind(g, data.gov_id).id
                    ELSE NULL,
         relations |-> IF has(data, "relations") THEN data.relations ELSE <<>>,
         closed_at |-> NULL,
         history |-> <<[action |-> "created"]>>]
      ideaFields ==
        [supporters |-> IF has(data, "supporters") THEN data.supporters ELSE <<>>,
         support_count |-> IF has(data, "support_count") THEN data.support_count ELSE 0]
  IN  IF type = "idea" THEN merge(base, ideaFields) ELSE base

createEntity(g, type, data, id) ==
  LET base ==
        [id |-> id,
         type |-> type,
         title |-> trim(data.title),
         body |-> IF truthy(data, "body") /\ trim(data.body) # ""
                  THEN trim(data.body) ELSE NULL,
         priority |-> IF has(data, "priority") THEN normalizePriority(data.priority).number
                      ELSE defaultPriority,
         status |-> IF truthy(data, "status") THEN data.status
                    ELSE ENTITY_STATUSES[type][1],
         gov_id |-> IF truthy(data, "gov_id") THEN governmentFind(g, data.gov_id).id
                    ELSE NULL,
         relations |-> IF has(data, "relations") THEN data.relations ELSE <<>>,
         closed_at |-> NULL,
         history |-> <<[action |-> "created"]>>]
      ideaFields ==
        [supporters |-> IF has(data, "supporters") THEN data.supporters ELSE <<>>,
         support_count |-> IF has(data, "support_count") THEN data.support_count ELSE 0]
  IN  IF type = "idea" THEN merge(base, ideaFields) ELSE base

\* create with the record appended before the status is validated.
createAppendsBeforeStatusCheck(s, g, type, data) ==
  IF createError(s, g, type, data) \notin {"ok", "InvalidStatus"}
  THEN {Outcome(s, createError(s, g, type, data))}
  ELSE {Outcome(appendRecord(s, createEntity(g, type, data, id)),
                createError(s, g, type, data)) :
          id \in generateId(getPrefixForType(type), {s[i].id : i \in DOMAIN s})}

\* The outcomes of create: one per identifier generateId can return.
create(s, g, type, data) ==
  IF createError(s, g, type, data) # "ok"
  THEN {Outcome(s, createError(s, g, type, data))}
  ELSE {Outcome(appendRecord(s, createEntity(g, type, data, id)), "ok") :
          id \in generateId(getPrefixForType(type), {s[i].id : i \in DOMAIN s})}

find(s, id) == findById(s, id)


(***************************************************************************)
(* core/entity.js: update                                                  *)
(***************************************************************************)
closingStatuses ==
  <<"resolved", "completed", "cancelled", "deprecated", "rejected", "superseded">>

updateError(s, g, entity, updates) ==
  IF has(updates, "title") /\ validateTitle(updates.title) # "ok"
  THEN validateTitle(updates.title)
  ELSE IF has(updates, "body") /\ validateBody(updates.body) # "ok" THEN "BodyTooLong"
  ELSE IF has(updates, "status") /\ validateStatus(updates.status, entity.type) # "ok"
       THEN "InvalidStatus"
  ELSE IF has(updates, "priority") /\ validatePriority(updates.priority) # "ok"
       THEN "InvalidPriority"
  ELSE IF truthy(updates, "gov_id") /\ ~governmentFound(g, updates.gov_id)
       THEN "GovernmentNotFound"
  ELSE IF has(updates, "relations")
          /\ validateRelations(s, updates.relations, entity.type) # "ok"
       THEN validateRelations(s, updates.relations, entity.type)
  ELSE "ok"

updatedGovId(g, updates) ==
  IF truthy(updates, "gov_id") THEN governmentFind(g, updates.gov_id).id ELSE NULL

historyEntry(action, field, old, new) ==
  [action |-> action, field |-> field, old_value |-> old, new_value |-> new]

\* historyEntries reading the old title after the new one was assigned.
historyEntriesOldTitleLost(g, entity, updates) ==
  (IF has(updates, "title")
   THEN <<historyEntry("title_changed", "title", trim(updates.title), trim(updates.title))>>
   ELSE <<>>)
  \o (IF has(updates, "status")
      THEN <<historyEntry("status_changed", "status", entity.status, updates.status)>>
      ELSE <<>>)
  \o (IF has(updates, "priority")
      THEN <<historyEntry("priority_changed", "priority", entity.priority,
                          normalizePriority(updates.priority).number)>>
      ELSE <<>>)
  \o (IF has(updates, "gov_id")
      THEN <<historyEntry(IF updatedGovId(g, updates) # NULL THEN "assigned"
                          ELSE "unassigned",
                          "gov_id", entity.gov_id, updatedGovId(g, updates))>>
      ELSE <<>>)
  \o (IF has(updates, "relations")
      THEN <<historyEntry("relations_changed", "relations", entity.relations,
                          updates.relations)>>
      ELSE <<>>)

\* historyEntries, in the order update pushes them.
historyEntries(g, entity, updates) ==
  (IF has(updates, "title")
   THEN <<historyEntry("title_changed", "title", entity.title, trim(updates.title))>>
   ELSE <<>>)
  \o (IF has(updates, "status")
      THEN <<historyEntry("status_changed", "status", entity.status, updates.status)>>
      ELSE <<>>)
  \o (IF has(updates, "priority")
      THEN <<historyEntry("priority_changed", "priority", entity.priority,
                          normalizePriority(updates.priority).number)>>
      ELSE <<>>)
  \o (IF has(updates, "gov_id")
      THEN <<historyEntry(IF updatedGovId(g, updates) # NULL THEN "assigned"
                          ELSE "unassigned",
                          "gov_id", entity.gov_id, updatedGovId(g, updates))>>
      ELSE <<>>)
  \o (IF has(updates, "relations")
      THEN <<historyEntry("relations_changed", "relations", entity.relations,
                          updates.relations)>>
      ELSE <<>>)

allowedUpdates(g, entity, updates) ==
  LET keys ==
        {f \in {"title", "body", "status", "priority", "gov_id", "relations"} :
           has(updates, f)}
        \cup (IF has(updates, "status")
                 /\ (includes(closingStatuses, updates.status)
                     \/ entity.closed_at # NULL)
              THEN {"closed_at"} ELSE {})
        \cup (IF entity.type = "idea"
              THEN {f \in {"support_count", "supporters"} : has(updates, f)}
              ELSE {})
        \cup (IF historyEntries(g, entity, updates) # <<>> THEN {"history"} ELSE {})
  IN  [f \in keys |->
        CASE f = "title" -> trim(updates.title)
          [] f = "body" -> IF truthy(updates, "body") /\ trim(updates.body) # ""
                           THEN trim(updates.body) ELSE NULL
          [] f = "status" -> updates.status
          [] f = "closed_at" -> IF includes(closingStatuses, updates.status)
                                THEN Now ELSE NULL
          [] f = "priority" -> normalizePriority(updates.priority).number
          [] f = "gov_id" -> updatedGovId(g, updates)
          [] f = "relations" -> updates.relations
          [] f = "support_count" -> updates.support_count
          [] f = "supporters" -> updates.supporters
          [] f = "history" -> entity.history \o historyEntries(g, entity, updates)]

update(s, g, id, updates) ==
  IF ~exists(s, id) THEN Outcome(s, "null")
  ELSE IF updateError(s, g, find(s, id), updates) # "ok"
       THEN Outcome(s, updateError(s, g, find(s, id), updates))
  ELSE Outcome(updateRecord(s, id, allowedUpdates(g, find(s, id), updates)), "ok")

remove(s, id) ==
  IF deleteRecord(s, id) = s THEN Outcome(s, "false")
  ELSE Outcome(deleteRecord(s, id), "true")

(***************************************************************************)
(* core/entity.js: relations, close, addSupport                            *)
(***************************************************************************)

\* addRelation with the search for an existing equal edge left out.
addRelationNoDuplicateCheck(s, g, sourceId, relationType, targetId) ==
  LET relation == [type |-> relationType, target |-> targetId] IN
  IF ~exists(s, sourceId) THEN Outcome(s, "SourceNotFound")
  ELSE IF validateRelation(s, relation, find(s, sourceId).type) # "ok"
       THEN Outcome(s, validateRelation(s, relation, find(s, sourceId).type))
  ELSE update(s, g, sourceId,
              [relations |-> Append(find(s, sourceId).relations, relation)])


addRelation(s, g, sourceId, relationType, targetId) ==
  LET relation == [type |-> relationType, target |-> targetId] IN
  IF ~exists(s, sourceId) THEN Outcome(s, "SourceNotFound")
  ELSE IF validateRelation(s, relation, find(s, sourceId).type) # "ok"
       THEN Outcome(s, validateRelation(s, relation, find(s, sourceId).type))
  ELSE IF includes(find(s, sourceId).relations, relation)
       THEN Outcome(s, "RelationExists")
  ELSE update(s, g, sourceId,
              [relations |-> Append(find(s, sourceId).relations, relation)])

removeRelation(s, g, sourceId, relationType, targetId) ==
  LET relation == [type |-> relationType, target |-> targetId] IN
  IF ~exists(s, sourceId) THEN Outcome(s, "SourceNotFound")
  ELSE LET existingRelations == find(s, sourceId).relations
           newRelations == SelectSeq(existingRelations, LAMBDA r : r # relation)
       IN  IF Len(newRelations) = Len(existingRelations)
           THEN Outcome(s, "RelationNotFound")
           ELSE update(s, g, sourceId, [relations |-> newRelations])

findRelatedFrom(s, targetId, relationType) ==
  findByRelation(s, targetId, relationType)

\* options: [rejected, cancelled]
close(s, g, id, options) ==
  IF ~exists(s, id) THEN Outcome(s, "null")
  ELSE LET terminalStatuses ==
             [goal |-> "deprecated",
              problem |-> "resolved",
              idea |-> IF options.rejected THEN "rejected" ELSE "accepted",
              action |-> IF options.cancelled THEN "cancelled" ELSE "completed"]
       IN  update(s, g, id, [status |-> terminalStatuses[find(s, id).type]])

\* addSupport without the test for a supporter already listed.
addSupportAgain(s, g, ideaId, supporterId) ==
  IF ~exists(s, ideaId) THEN Outcome(s, "IdeaNotFound")
  ELSE IF find(s, ideaId).type # "idea" THEN Outcome(s, "NotAnIdea")
  ELSE update(s, g, ideaId,
              [supporters |-> Append(find(s, ideaId).supporters, supporterId),
               support_count |-> find(s, ideaId).support_count + 1])

addSupport(s, g, ideaId, supporterId) ==
  IF ~exists(s, ideaId) THEN Outcome(s, "IdeaNotFound")
  ELSE IF find(s, ideaId).type # "idea" THEN Outcome(s, "NotAnIdea")
  ELSE IF includes(find(s, ideaId).supporters, supporterId)
       THEN Outcome(s, "AlreadySupported")
  ELSE update(s, g, ideaId,
              [supporters |-> Append(find(s, ideaId).supporters, supporterId),
               support_count |-> find(s, ideaId).support_count + 1])

(***************************************************************************)
(* core/relation.js                                                        *)
(***************************************************************************)
\* The targets wouldCreateCycle / getTransitiveDependencies push for a record.
dependencyTargets(current, visited) ==
  LET rels == SelectSeq(current.relations, LAMBDA rel :
                includes(DEPENDENCY_RELATIONS, rel.type) /\ rel.target \notin visited)
  IN  [i \in DOMAIN rels |-> rels[i].target]

\* The while loop of wouldCreateCycle on (queue, visited).
RECURSIVE cycleSearch(_, _, _, _)
cycleSearch(s, sourceId, queue, visited) ==
  IF queue = <<>> THEN FALSE
  ELSE LET currentId == Head(queue) IN
       IF currentId = sourceId THEN TRUE
       ELSE IF currentId \in visited
            THEN cycleSearch(s, sourceId, Tail(queue), visited)
       ELSE IF ~exists(s, currentId)
            THEN cycleSearch(s, sourceId, Tail(queue), visited \cup {currentId})
       ELSE cycleSearch(s, sourceId,
              Tail(queue) \o dependencyTargets(find(s, currentId),
                                               visited \cup {currentId}),
              visited \cup {currentId})


\* wouldCreateCycle with the search started at the source, looking for the
\* target.
wouldCreateCycleFromSource(s, sourceId, targetId, relationType) ==
  IF ~includes(DEPENDENCY_RELATIONS, relationType) THEN FALSE
  ELSE cycleSearch(s, targetId, <<sourceId>>, {})


wouldCreateCycle(s, sourceId, targetId, relationType) ==
  IF ~includes(DEPENDENCY_RELATIONS, relationType) THEN FALSE
  ELSE cycleSearch(s, sourceId, <<targetId>>, {})


\* link with the cycle check left out.
linkNoCycleCheck(s, g, sourceId, relationType, targetId) ==
  IF sourceId = targetId THEN Outcome(s, "SelfReference")
  ELSE addRelation(s, g, sourceId, relationType, targetId)

\* link with the self-reference check left out.
linkNoSelfCheck(s, g, sourceId, relationType, targetId) ==
  IF includes(DEPENDENCY_RELATIONS, relationType)
     /\ wouldCreateCycle(s, sourceId, targetId, relationType)
  THEN Outcome(s, "WouldCreateCycle")
  ELSE addRelation(s, g, sourceId, relationType, targetId)


link(s, g, sourceId, relationType, targetId) ==
  IF sourceId = targetId THEN Outcome(s, "SelfReference")
  ELSE IF includes(DEPENDENCY_RELATIONS, relationType)
          /\ wouldCreateCycle(s, sourceId, targetId, relationType)
       THEN Outcome(s, "WouldCreateCycle")
  ELSE addRelation(s, g, sourceId, relationType, targetId)

unlink(s, g, sourceId, relationType, targetId) ==
  removeRelation(s, g, sourceId, relationType, targetId)


\* findDependencies following every dependency-forming relation type.
findDependenciesAnyType(s, entityId) ==
  IF ~exists(s, entityId) THEN <<>>
  ELSE LET deps == SelectSeq(find(s, entityId).relations, LAMBDA rel :
                     includes(DEPENDENCY_RELATIONS, rel.type) /\ exists(s, rel.target))
       IN  [i \in DOMAIN deps |-> find(s, deps[i].target)]

\* findDependencies: the depends_on targets that exist, in stored order.
findDependencies(s, entityId) ==
  IF ~exists(s, entityId) THEN <<>>
  ELSE LET deps == SelectSeq(find(s, entityId).relations, LAMBDA rel :
                     rel.type = "depends_on" /\ exists(s, rel.target))
       IN  [i \in DOMAIN deps |-> find(s, deps[i].target)]

blockedTerminalStatuses ==
  <<"completed", "resolved", "accepted", "cancelled", "deprecated", "rejected">>

isBlocked(s, entityId) ==
  LET blockers == SelectSeq(findDependencies(s, entityId), LAMBDA dep :
                    ~includes(blockedTerminalStatuses, dep.status))
  IN  [blocked |-> Len(blockers) > 0,
       blockers |-> [i \in DOMAIN blockers |->
                       [id |-> blockers[i].id, title |-> blockers[i].title,
                        status |-> blockers[i].status]]]

\* The concatenation of a sequence of sequences.
RECURSIVE flatten(_)
flatten(seqs) == IF seqs = <<>> THEN <<>> ELSE Head(seqs) \o flatten(Tail(seqs))

\* getRelations with one incoming entry for each entity that holds an edge
\* to the id, whatever the number of edges it holds.
getRelationsOnePerSource(s, entityId) ==
  IF ~exists(s, entityId) THEN [result |-> "EntityNotFound"]
  ELSE LET ent == find(s, entityId)
           relatedEntities == findRelatedFrom(s, entityId, NULL)
           matchingRels(related) ==
             SubSeq(SelectSeq(related.relations, LAMBDA r : r.target = entityId), 1, 1)
       IN  [result |-> "ok",
            outgoing |->
              [i \in DOMAIN ent.relations |->
                 [type |-> ent.relations[i].type,
                  target |-> ent.relations[i].target,
                  targetEntity |-> IF exists(s, ent.relations[i].target)
                                   THEN find(s, ent.relations[i].target)
                                   ELSE NULL]],
            incoming |->
              flatten([k \in DOMAIN relatedEntities |->
                 [i \in DOMAIN matchingRels(relatedEntities[k]) |->
                    [type |-> matchingRels(relatedEntities[k])[i].type,
                     source |-> relatedEntities[k].id,
                     sourceEntity |-> relatedEntities[k]]]])]

\* getRelations: result "ok" with the outgoing and incoming lists, or the
\* error thrown for an id that is not stored.
getRelations(s, entityId) ==
  IF ~exists(s, entityId) THEN [result |-> "EntityNotFound"]
  ELSE LET ent == find(s, entityId)
           relatedEntities == findRelatedFrom(s, entityId, NULL)
           matchingRels(related) ==
             SelectSeq(related.relations, LAMBDA r : r.target = entityId)
       IN  [result |-> "ok",
            outgoing |->
              [i \in DOMAIN ent.relations |->
                 [type |-> ent.relations[i].type,
                  target |-> ent.relations[i].target,
                  targetEntity |-> IF exists(s, ent.relations[i].target)
                                   THEN find(s, ent.relations[i].target)
                                   ELSE NULL]],
            incoming |->
              flatten([k \in DOMAIN relatedEntities |->
                 [i \in DOMAIN matchingRels(relatedEntities[k]) |->
                    [type |-> matchingRels(relatedEntities[k])[i].type,
                     source |-> relatedEntities[k].id,
                     sourceEntity |-> relatedEntities[k]]]])]

\* The while loop of getTransitiveDependencies on (queue, visited, result).
RECURSIVE transitiveSearch(_, _, _, _)
transitiveSearch(s, queue, visited, result) ==
  IF queue = <<>> THEN result
  ELSE LET currentId == Head(queue) IN
       IF currentId \in visited
       THEN transitiveSearch(s, Tail(queue), visited, result)
       ELSE IF ~exists(s, currentId)
            THEN transitiveSearch(s, Tail(queue), visited \cup {currentId}, result)
       ELSE transitiveSearch(s,
              Tail(queue) \o dependencyTargets(find(s, currentId),
                                               visited \cup {currentId}),
              visited \cup {currentId},
              Append(result, find(s, currentId)))

\* The loop with the test for an identifier already visited left out when
\* an identifier is taken from the queue.
RECURSIVE transitiveSearchRevisiting(_, _, _, _)
transitiveSearchRevisiting(s, queue, visited, result) ==
  IF queue = <<>> THEN result
  ELSE LET currentId == Head(queue) IN
       IF ~exists(s, currentId)
       THEN transitiveSearchRevisiting(s, Tail(queue), visited \cup {currentId}, result)
       ELSE transitiveSearchRevisiting(s,
              Tail(queue) \o dependencyTargets(find(s, currentId),
                                               visited \cup {currentId}),
              visited \cup {currentId},
              Append(result, find(s, currentId)))

\* The number of times the loop of getTransitiveDependencies takes an
\* identifier from the queue.
RECURSIVE transitiveIterations(_, _, _)
transitiveIterations(s, queue, visited) ==
  IF queue = <<>> THEN 0
  ELSE LET currentId == Head(queue) IN
       IF currentId \in visited
       THEN 1 + transitiveIterations(s, Tail(queue), visited)
       ELSE IF ~exists(s, currentId)
            THEN 1 + transitiveIterations(s, Tail(queue), visited \cup {currentId})
       ELSE 1 + transitiveIterations(s,
                  Tail(queue) \o dependencyTargets(find(s, currentId),
                                                   visited \cup {currentId}),
                  visited \cup {currentId})

getTransitiveDependenciesRevisiting(s, entityId) ==
  transitiveSearchRevisiting(s, <<entityId>>, {}, <<>>)

getTransitiveDependencies(s, entityId) ==
  transitiveSearch(s, <<entityId>>, {}, <<>>)

\* entity.list without filters: the records sorted by created_at, latest
\* first.  created_at does not decrease along the file, and records created
\* in the same millisecond keep their file order: for every way to cut the
\* file into runs of equal created_at, the runs in reverse order.
list(s) ==
  {LET run(i) == Cardinality({c \in cuts : c < i})
       rank(i) == 1 + Cardinality({j \in DOMAIN s :
                         run(j) > run(i) \/ (run(j) = run(i) /\ j < i)})
   IN  [k \in DOMAIN s |-> s[CHOOSE i \in DOMAIN s : rank(i) = k]] :
   cuts \in SUBSET (1..(Len(s) - 1))}

\* dependencyEdgesOf without the test that the target is a node.
dependencyEdgesOfAnyTarget(ent, nodeIds) ==
  LET rels == SelectSeq(ent.relations, LAMBDA rel :
                includes(DEPENDENCY_RELATIONS, rel.type))
  IN  [i \in DOMAIN rels |->
         [source |-> ent.id, target |-> rels[i].target, type |-> rels[i].type]]

\* The dependency edges of one entity that getDependencyGraph keeps.
dependencyEdgesOf(ent, nodeIds) ==
  LET rels == SelectSeq(ent.relations, LAMBDA rel :
                includes(DEPENDENCY_RELATIONS, rel.type) /\ rel.target \in nodeIds)
  IN  [i \in DOMAIN rels |->
         [source |-> ent.id, target |-> rels[i].target, type |-> rels[i].type]]

\* The body of getDependencyGraph once entities is known.
dependencyGraphOf(entities) ==
  LET nodeIds == {entities[i].id : i \in DOMAIN entities} IN
    [nodes |-> [i \in DOMAIN entities |->
                  [id |-> entities[i].id, type |-> entities[i].type,
                   title |-> entities[i].title, status |-> entities[i].status]],
     edges |-> flatten([i \in DOMAIN entities |->
                          dependencyEdgesOf(entities[i], nodeIds)])]

\* getDependencyGraph: the graphs it can return (one for each order list
\* can give the entities when no root is passed).
getDependencyGraph(s, rootId) ==
  {dependencyGraphOf(entities) :
     entities \in IF truthy([rootId |-> rootId], "rootId")
                  THEN {getTransitiveDependencies(s, rootId)}
                  ELSE list(s)}

\* getGraphData without filters: every edge whose target is a node.
graphDataOf(entities) ==
  LET nodeIds == {entities[i].id : i \in DOMAIN entities} IN
    [nodes |-> [i \in DOMAIN entities |->
                  [id |-> entities[i].id, type |-> entities[i].type,
                   title |-> entities[i].title, status |-> entities[i].status,
                   priority |-> entities[i].priority, gov_id |-> entities[i].gov_id]],
     edges |-> flatten([i \in DOMAIN entities |->
                 LET rels == SelectSeq(entities[i].relations,
                                       LAMBDA rel : rel.target \in nodeIds)
                 IN  [j \in DOMAIN rels |->
                        [source |-> entities[i].id, target |-> rels[j].target,
                         type |-> rels[j].type]]])]

getGraphData(s) == {graphDataOf(entities) : entities \in list(s)}

(***************************************************************************)
(* Text classification and similarity (classifyText, calculateSimilarity). *)
(* Texts are strings; the character at position i is SubSeq(str, i, i).    *)
(***************************************************************************)
upperCaseLetters == "ABCDEFGHIJKLMNOPQRSTUVWXYZ"
lowerCaseLetters == "abcdefghijklmnopqrstuvwxyz"
digitsAndUnderscore == "0123456789_"

charAt(str, i) == SubSeq(str, i, i)

charsOf(str) == {charAt(str, i) : i \in 1..Len(str)}

\* The character class \s, on the characters the model passes in.
isWhitespace(c) == c = " "

\* The character class \w.
isWordCharacter(c) ==
  c \in charsOf(upperCaseLetters) \cup charsOf(lowerCaseLetters)
        \cup charsOf(digitsAndUnderscore)

lowerCaseOf(c) ==
  IF c \in charsOf(upperCaseLetters)
  THEN charAt(lowerCaseLetters,
              CHOOSE i \in 1..Len(upperCaseLetters) : charAt(upperCaseLetters, i) = c)
  ELSE c

\* String.prototype.toLowerCase
RECURSIVE toLowerCase(_)
toLowerCase(str) ==
  IF str = "" THEN ""
  ELSE lowerCaseOf(charAt(str, 1)) \o toLowerCase(SubSeq(str, 2, Len(str)))

\* replace(/[^\w\s]/g, '')
RECURSIVE removePunctuation(_)
removePunctuation(str) ==
  IF str = "" THEN ""
  ELSE (IF isWordCharacter(charAt(str, 1)) \/ isWhitespace(charAt(str, 1))
        THEN charAt(str, 1) ELSE "")
       \o removePunctuation(SubSeq(str, 2, Len(str)))

\* replace(/\s+/g, ' ')
RECURSIVE collapseWhitespace(_)
collapseWhitespace(str) ==
  IF str = "" THEN ""
  ELSE IF isWhitespace(charAt(str, 1))
       THEN IF Len(str) >= 2 /\ isWhitespace(charAt(str, 2))
            THEN collapseWhitespace(SubSeq(str, 2, Len(str)))
            ELSE " " \o collapseWhitespace(SubSeq(str, 2, Len(str)))
       ELSE charAt(str, 1) \o collapseWhitespace(SubSeq(str, 2, Len(str)))

\* String.prototype.trim
RECURSIVE trimWhitespace(_)
trimWhitespace(str) ==
  IF str = "" THEN ""
  ELSE IF isWhitespace(charAt(str, 1)) THEN trimWhitespace(SubSeq(str, 2, Len(str)))
  ELSE IF isWhitespace(charAt(str, Len(str)))
       THEN trimWhitespace(SubSeq(str, 1, Len(str) - 1))
  ELSE str

normalizeText(text) ==
  trimWhitespace(collapseWhitespace(removePunctuation(toLowerCase(text))))

\* split(/\s+/): the pieces between the runs of whitespace, the empty
\* pieces before a leading and after a trailing run included; `piece` is
\* the piece being read.
RECURSIVE splitFrom(_, _)
splitFrom(str, piece) ==
  IF str = "" THEN <<piece>>
  ELSE IF isWhitespace(charAt(str, 1))
       THEN IF Len(str) >= 2 /\ isWhitespace(charAt(str, 2))
            THEN splitFrom(SubSeq(str, 2, Len(str)), piece)
            ELSE <<piece>> \o splitFrom(SubSeq(str, 2, Len(str)), "")
       ELSE splitFrom(SubSeq(str, 2, Len(str)), piece \o charAt(str, 1))

splitWhitespace(str) == splitFrom(str, "")

\* The value intersection.size / union.size as a fraction.
Fraction(num, den) == [num |-> num, den |-> den]

calculateSimilarity(text1, text2) ==
  IF text1 = "" \/ text2 = "" THEN Fraction(0, 1)
  ELSE LET words1 == Range(splitWhitespace(normalizeText(text1)))
           words2 == Range(splitWhitespace(normalizeText(text2)))
           intersection == {x \in words1 : x \in words2}
           union == words1 \cup words2
       IN  IF Cardinality(union) = 0 THEN Fraction(0, 1)
           ELSE Fraction(Cardinality(intersection), Cardinality(union))

TYPE_KEYWORDS ==
  [goal |->
     <<"improve", "increase", "reduce", "enhance", "promote", "ensure",
       "achieve", "establish", "create", "build", "develop", "maintain",
       "safe", "sustainable", "accessible", "affordable", "efficient",
       "vision", "objective", "target", "aim", "aspiration">>,
   problem |->
     <<"broken", "damaged", "issue", "problem", "complaint", "concern",
       "pothole", "graffiti", "noise", "pollution", "crime", "dangerous",
       "unsafe", "blocked", "flooded", "cracked", "missing", "faulty",
       "abandoned", "neglected", "deteriorating", "overcrowded">>,
   idea |->
     <<"suggest", "propose", "idea", "solution", "could", "should", "might",
       "consider", "implement", "install", "create", "establish", "introduce",
       "program", "initiative", "pilot", "project", "scheme", "plan">>,
   action |->
     <<"task", "action", "do", "complete", "fix", "repair", "install",
       "remove", "clean", "paint", "replace", "update", "review", "inspect",
       "schedule", "assign", "deadline", "responsible", "priority">>]

\* String.prototype.includes
stringIncludes(str, part) ==
  \E i \in 1..(Len(str) - Len(part) + 1) : SubSeq(str, i, i + Len(part) - 1) = part

\* The keyword matches counted for each type.
keywordScores(lowerText) ==
  [type \in DOMAIN TYPE_KEYWORDS |->
     Cardinality({i \in DOMAIN TYPE_KEYWORDS[type] :
                    stringIncludes(lowerText, TYPE_KEYWORDS[type][i])})]

defaultType == "idea"
defaultConfidence == 25

\* The loop over Object.entries(scores) with a later type of equal score
\* taking the place of an earlier one.
RECURSIVE bestFromLaterWins(_, _, _)
bestFromLaterWins(scores, types, best) ==
  IF types = <<>> THEN best
  ELSE bestFromLaterWins(scores, Tail(types),
         [bestType |-> IF scores[Head(types)] >= best.bestScore /\ scores[Head(types)] > 0
                       THEN Head(types) ELSE best.bestType,
          bestScore |-> IF scores[Head(types)] >= best.bestScore
                        THEN scores[Head(types)] ELSE best.bestScore,
          totalScore |-> best.totalScore + scores[Head(types)]])

\* The loop over Object.entries(scores), in the order of the keys of
\* scores, from the given bestType, bestScore and totalScore on.
RECURSIVE bestFrom(_, _, _)
bestFrom(scores, types, best) ==
  IF types = <<>> THEN best
  ELSE bestFrom(scores, Tail(types),
         [bestType |-> IF scores[Head(types)] > best.bestScore
                       THEN Head(types) ELSE best.bestType,
          bestScore |-> IF scores[Head(types)] > best.bestScore
                        THEN scores[Head(types)] ELSE best.bestScore,
          totalScore |-> best.totalScore + scores[Head(types)]])

\* Math.round(x * 100) for x = num / den, den > 0: the confidence in
\* hundredths.
roundHundredths(num, den) == (200 * num + den) \div (2 * den)

\* classifyText: type, confidence in hundredths and scores of the result.
classifyText(text) ==
  LET lowerText == toLowerCase(text)
      scores == keywordScores(lowerText)
      best == bestFrom(scores, ENTITY_TYPES,
                       [bestType |-> defaultType, bestScore |-> 0, totalScore |-> 0])
  IN  [type |-> best.bestType,
       confidence |-> IF best.totalScore > 0
                      THEN roundHundredths(best.bestScore, best.totalScore)
                      ELSE defaultConfidence,
       scores |-> scores]

(***************************************************************************)
(* Actions: one per exported operation, over the inputs a caller passes.   *)
(***************************************************************************)
\* The history entries in the store beyond the "created" ones.
RECURSIVE Changes(_)
Changes(s) ==
  IF s = <<>> THEN 0 ELSE Len(Head(s).history) - 1 + Changes(Tail(s))

\* The step leaves at most max such entries in the store.
Within(max) == Changes(store') <= max

\* The call with outcome o is made: the store becomes o.store (unchanged
\* when the call throws) and the caller receives o.result.
Called(o) ==
  /\ store' = o.store
  /\ UNCHANGED <<governments, writers, returned, call>>

Create(type, data) ==
  \E o \in create(store, governments, type, data) : Called(o)

Update(id, updates) == Called(update(store, governments, id, updates))

Remove(id) == Called(remove(store, id))

Close(id, options) == Called(close(store, governments, id, options))

AddSupport(ideaId, supporterId) ==
  Called(addSupport(store, governments, ideaId, supporterId))

AddRelation(sourceId, relationType, targetId) ==
  Called(addRelation(store, governments, sourceId, relationType, targetId))

Link(sourceId, relationType, targetId) ==
  Called(link(store, governments, sourceId, relationType, targetId))

Unlink(sourceId, relationType, targetId) ==
  Called(unlink(store, governments, sourceId, relationType, targetId))

(***************************************************************************)
(* Inputs.                                                                 *)
(***************************************************************************)
IdsOfType(type) ==
  {getPrefixForType(type) \o "-" \o h :
     h \in HexHashes(firstHashLength) \cup HexHashes(widenedHashLength)
           \cup HexHashes(fallbackHashLength)}

IdsOfTypes(types) == UNION {IdsOfType(t) : t \in types}

SupporterIds == {"alice"}

Edge(type, target) == [type |-> type, target |-> target]

\* A writer process outside every operation.
Idle == [pc |-> "idle", op |-> [kind |-> "none"], updates |-> <<>>, records |-> <<>>]

\* One writer process, which runs its operations one at a time; no call.
Init ==
  /\ store = <<>>
  /\ governments = <<>>
  /\ writers = <<Idle>>
  /\ returned = <<>>
  /\ call = NULL

(***************************************************************************)
(* SpecLinked: a single writer whose calls pass no relations field (create *)
(* without inline relations, update without relations); edges are written  *)
(* by link and unlink only.                                                *)
(***************************************************************************)
LinkedTypes == {"action", "idea"}

LinkedIds == IdsOfTypes(LinkedTypes)

LinkedRelationTypes == {"depends_on", "blocks", "requires"}

LinkedStatuses == {"in_progress"}

LinkedCloseOptions == {[rejected |-> FALSE, cancelled |-> FALSE]}

\* Calls on an identifier the store does not hold change nothing; link and
\* unlink are called on the stored sources.
StoreIds == {store[i].id : i \in DOMAIN store}

CreatePlain ==
  /\ Len(store) < MaxLinked
  /\ \E type \in LinkedTypes : Create(type, [title |-> "pothole"])

UpdateStatus ==
  /\ \E id \in LinkedIds, st \in LinkedStatuses : Update(id, [status |-> st])
  /\ Within(MaxLinkedChanges)

RemoveLinked == \E id \in LinkedIds : Remove(id)

CloseLinked ==
  /\ \E id \in LinkedIds, options \in LinkedCloseOptions : Close(id, options)
  /\ Within(MaxLinkedChanges)

AddSupportLinked ==
  /\ \E id \in LinkedIds, u \in SupporterIds : AddSupport(id, u)
  /\ Within(MaxLinkedChanges)

LinkLinked ==
  /\ \E src \in StoreIds, t \in LinkedRelationTypes, tgt \in LinkedIds :
       Link(src, t, tgt)
  /\ Within(MaxLinkedChanges)

UnlinkLinked ==
  /\ \E src \in StoreIds, t \in {"depends_on", "requires"}, tgt \in LinkedIds :
       Unlink(src, t, tgt)
  /\ Within(MaxLinkedChanges)

NextLinked ==
  \/ CreatePlain
  \/ UpdateStatus
  \/ RemoveLinked
  \/ CloseLinked
  \/ AddSupportLinked
  \/ LinkLinked
  \/ UnlinkLinked

SpecLinked == Init /\ [][NextLinked]_vars

(***************************************************************************)
(* Spec: every relation-writing path, including inline relations in create *)
(* and a relations field in update.                                        *)
(***************************************************************************)
EntityTypeInputs == {"goal", "problem", "idea"}

IdInputs == IdsOfTypes(EntityTypeInputs)

RelationTypeInputs == {"addresses", "requires", "complements"}

StatusInputs == {"resolved", "rejected"}

\* The first identifier generated for each type.
EdgeTargets == {getPrefixForType(t) \o "-" \o h :
                  t \in EntityTypeInputs, h \in HexHashes(firstHashLength)}

EdgeInputs == {Edge(t, tgt) : t \in RelationTypeInputs, tgt \in EdgeTargets}

\* The relations arrays passed to create and update: empty, one edge, the
\* same edge twice.
RelationsInputs == {<<>>} \cup {<<e>> : e \in EdgeInputs} \cup {<<e, e>> : e \in EdgeInputs}

CreateDataInputs ==
  {[title |-> "pothole"]}
  \cup {[title |-> "pothole", status |-> st] : st \in StatusInputs}
  \cup {[title |-> "pothole", relations |-> r] : r \in RelationsInputs}

UpdateInputs ==
  {[status |-> st] : st \in StatusInputs}
  \cup {[relations |-> r] : r \in RelationsInputs}

CloseOptions == {[rejected |-> b, cancelled |-> FALSE] : b \in BOOLEAN}

CreateAny ==
  /\ Len(store) < MaxEntities
  /\ \E type \in EntityTypeInputs, data \in CreateDataInputs : Create(type, data)

UpdateAny ==
  /\ \E id \in StoreIds, updates \in UpdateInputs : Update(id, updates)
  /\ Within(MaxChanges)

RemoveAny == \E id \in IdInputs : Remove(id)

CloseAny ==
  /\ \E id \in IdInputs, options \in CloseOptions : Close(id, options)
  /\ Within(MaxChanges)

AddSupportAny ==
  /\ \E id \in IdInputs, u \in SupporterIds : AddSupport(id, u)
  /\ Within(MaxChanges)

AddRelationAny ==
  /\ \E src \in StoreIds, t \in RelationTypeInputs, tgt \in IdInputs :
       AddRelation(src, t, tgt)
  /\ Within(MaxChanges)

LinkAny ==
  /\ \E src \in StoreIds, t \in RelationTypeInputs, tgt \in IdInputs :
       Link(src, t, tgt)
  /\ Within(MaxChanges)

UnlinkAny ==
  /\ \E src \in StoreIds, t \in RelationTypeInputs, tgt \in IdInputs :
       Unlink(src, t, tgt)
  /\ Within(MaxChanges)

Next ==
  \/ CreateAny
  \/ UpdateAny
  \/ RemoveAny
  \/ CloseAny
  \/ AddSupportAny
  \/ AddRelationAny
  \/ LinkAny
  \/ UnlinkAny

Spec == Init /\ [][Next]_vars

(***************************************************************************)
(* SpecFields: problems and ideas whose fields change: title, body,        *)
(* status, priority, government assignment and idea support.               *)
(***************************************************************************)
FieldTypes == {"problem", "idea"}

FieldIds == IdsOfTypes(FieldTypes)

GovernmentDataInputs == {[name |-> "Travis County"]}

\* The slug given to the first government created from GovernmentDataInputs.
GovernmentRefs == {"travis-county"}

FieldCreateInputs ==
  {[title |-> "pothole"],
   [title |-> "pothole", supporters |-> <<"alice">>, support_count |-> 1]}

FieldUpdateInputs ==
  {[body |-> "deep"],
   [priority |-> Number(3)],
   [support_count |-> 5]}
  \cup {[gov_id |-> ref] : ref \in GovernmentRefs}

FieldCloseOptions == {[rejected |-> FALSE, cancelled |-> FALSE]}

CreateGovernment ==
  /\ Len(governments) < MaxGovernments
  /\ \E data \in GovernmentDataInputs :
       \E o \in governmentCreate(governments, data) : governments' = o.store
  /\ UNCHANGED <<store, writers, returned, call>>

CreateField ==
  /\ Len(store) < MaxFieldEntities
  /\ \E type \in FieldTypes, data \in FieldCreateInputs : Create(type, data)

UpdateField ==
  /\ \E id \in StoreIds, updates \in FieldUpdateInputs : Update(id, updates)
  /\ Within(MaxFieldChanges)

RemoveField == \E id \in StoreIds : Remove(id)

CloseField ==
  /\ \E id \in StoreIds, options \in FieldCloseOptions : Close(id, options)
  /\ Within(MaxFieldChanges)

AddSupportField ==
  /\ \E id \in StoreIds, u \in SupporterIds : AddSupport(id, u)
  /\ Within(MaxFieldChanges)

NextFields ==
  \/ CreateGovernment
  \/ CreateField
  \/ UpdateField
  \/ RemoveField
  \/ CloseField
  \/ AddSupportField

SpecFields == Init /\ [][NextFields]_vars

(***************************************************************************)
(* SpecIds: entities of two types created and removed, every hash that     *)
(* generateId draws being one that was drawn before.                       *)
(***************************************************************************)
IdTypes == {"goal", "action"}

IdCreateInputs == {[title |-> "pothole"]}

CreateId ==
  /\ Len(store) < MaxIdEntities
  /\ \E type \in IdTypes, data \in IdCreateInputs : Create(type, data)

RemoveId == \E id \in StoreIds : Remove(id)

NextIds ==
  \/ CreateId
  \/ RemoveId

SpecIds == Init /\ [][NextIds]_vars

(***************************************************************************)
(* SpecSlugs: makeSlugUnique called on a base slug and an existsCheck      *)
(* given as the set of slugs it reports, and governments created with and  *)
(* without a slug of their own.                                            *)
(***************************************************************************)
SlugBases == {"travis-county", "austin"}

\* base and base-2 ... base-999: every slug the loop of makeSlugUnique asks
\* existsCheck about.
CounterSlugs(base) ==
  {base} \cup {base \o "-" \o ToString(k) : k \in slugCounterStart..(slugCounterLimit - 1)}

SlugSetInputs ==
  SUBSET {"travis-county", "travis-county-2", "travis-county-3", "austin", "austin-2"}
  \cup {CounterSlugs(base) : base \in SlugBases}
  \cup {CounterSlugs(base) \ {base \o "-500"} : base \in SlugBases}

MakeSlugUniqueCalls ==
  {[fn |-> "makeSlugUnique", baseSlug |-> base, taken |-> taken, result |-> NULL] :
     base \in SlugBases, taken \in SlugSetInputs}

SlugGovernmentInputs ==
  {[name |-> "Travis County"],
   [name |-> " Travis County "],
   [name |-> "Austin", slug |-> "travis-county-2"]}

InitSlugs ==
  /\ store = <<>>
  /\ governments = <<>>
  /\ writers = <<Idle>>
  /\ returned = <<>>
  /\ call \in MakeSlugUniqueCalls

CallMakeSlugUnique ==
  /\ call.fn = "makeSlugUnique"
  /\ call.result = NULL
  /\ \E slug \in makeSlugUnique(call.baseSlug, call.taken) :
       call' = [call EXCEPT !.result = slug]
  /\ UNCHANGED <<store, governments, writers, returned>>

CreateSlugGovernment ==
  /\ Len(governments) < MaxSlugGovernments
  /\ \E data \in SlugGovernmentInputs :
       \E o \in governmentCreate(governments, data) : governments' = o.store
  /\ UNCHANGED <<store, writers, returned, call>>

NextSlugs ==
  \/ CallMakeSlugUnique
  \/ CreateSlugGovernment

SpecSlugs == InitSlugs /\ [][NextSlugs]_vars

(***************************************************************************)
(* SpecText: calculateSimilarity and classifyText called on texts.         *)
(***************************************************************************)
TextCharacters == {"a", "B", " ", "!"}

RECURSIVE TextsOfLength(_)
TextsOfLength(n) ==
  IF n = 0 THEN {""}
  ELSE {text \o c : text \in TextsOfLength(n - 1), c \in TextCharacters}

SimilarityTexts == UNION {TextsOfLength(n) : n \in 0..MaxTextLength}

CalculateSimilarityCalls ==
  {[fn |-> "calculateSimilarity", text1 |-> a, text2 |-> b,
    done |-> FALSE, result |-> NULL] :
     a \in SimilarityTexts, b \in SimilarityTexts}

\* Words with a keyword of one type, with a keyword of two types
\* ("create": goal and idea; "install": idea and action), with a keyword
\* inside another word and in upper case ("Window"), and with none.
TextWords ==
  {"improve", "pothole", "suggest", "fix", "create", "install", "Window", "hello"}

\* The texts of n words with a blank between them.
RECURSIVE TextsOfWords(_)
TextsOfWords(n) ==
  IF n = 0 THEN {""}
  ELSE IF n = 1 THEN TextWords
  ELSE {text \o " " \o word : text \in TextsOfWords(n - 1), word \in TextWords}

ClassifyTexts == UNION {TextsOfWords(n) : n \in 0..MaxTextWords}

ClassifyTextCalls ==
  {[fn |-> "classifyText", text |-> text, done |-> FALSE, result |-> NULL] :
     text \in ClassifyTexts}

InitText ==
  /\ store = <<>>
  /\ governments = <<>>
  /\ writers = <<Idle>>
  /\ returned = <<>>
  /\ call \in CalculateSimilarityCalls \cup ClassifyTextCalls

CallCalculateSimilarity ==
  /\ call.fn = "calculateSimilarity"
  /\ ~call.done
  /\ call' = [call EXCEPT !.done = TRUE,
                          !.result = calculateSimilarity(call.text1, call.text2)]
  /\ UNCHANGED <<store, governments, writers, returned>>

CallClassifyText ==
  /\ call.fn = "classifyText"
  /\ ~call.done
  /\ call' = [call EXCEPT !.done = TRUE, !.result = classifyText(call.text)]
  /\ UNCHANGED <<store, governments, writers, returned>>

NextText ==
  \/ CallCalculateSimilarity
  \/ CallClassifyText

SpecText == InitText /\ [][NextText]_vars

(***************************************************************************)
(* SpecWriters: one or two writer processes on the same entities.jsonl.    *)
(* An update or link first reads the entity and computes the changes       *)
(* (entity.update up to its call of storage.updateRecord), then            *)
(* updateRecord reads all records, then it writes all records back;        *)
(* remove reads all records in deleteRecord, then writes the others back.  *)
(* The steps of two processes interleave.                                  *)
(***************************************************************************)
\* The stores after two actions have been created.
WriterStores ==
  {second.store :
     second \in UNION {create(first.store, governments, "action", [title |-> "pothole"]) :
                         first \in create(<<>>, <<>>, "action", [title |-> "pothole"])}}

\* The identifiers of the two actions, in the order of their creation.
WriterIds == <<"ga-a1b2", "ga-a1b2c">>

WriterOps ==
  {[kind |-> "update", id |-> id, updates |-> [title |-> "sinkhole"]] :
     id \in Range(WriterIds)}
  \cup {[kind |-> "link", id |-> WriterIds[1], type |-> "depends_on",
          target |-> WriterIds[2]]}
  \cup {[kind |-> "remove", id |-> WriterIds[2]]}

\* What the operation returns when it runs on the store s without another
\* process in between.
operationOutcome(s, g, op) ==
  CASE op.kind = "update" -> update(s, g, op.id, op.updates)
    [] op.kind = "link" -> link(s, g, op.id, op.type, op.target)
    [] op.kind = "remove" -> remove(s, op.id)

\* The updates entity.update hands to storage.updateRecord for the
\* operation, computed from the store s.
preparedUpdates(s, g, op) ==
  CASE op.kind = "update" -> allowedUpdates(g, find(s, op.id), op.updates)
    [] op.kind = "link" ->
         allowedUpdates(g, find(s, op.id),
           [relations |-> Append(find(s, op.id).relations, Edge(op.type, op.target))])
    [] op.kind = "remove" -> <<>>

\* The changes of successful operations that the operation, now successful
\* too, does not replace, followed by its own.
returnedAfter(op, updates) ==
  IF op.kind = "remove"
  THEN Append(SelectSeq(returned, LAMBDA c : c.id # op.id),
              [id |-> op.id, field |-> "removed", value |-> TRUE])
  ELSE LET fields == CHOOSE seq \in [1..Cardinality(DOMAIN updates) -> DOMAIN updates] :
                       Range(seq) = DOMAIN updates
       IN  SelectSeq(returned, LAMBDA c : ~(c.id = op.id /\ c.field \in DOMAIN updates))
           \o [i \in DOMAIN fields |->
                 [id |-> op.id, field |-> fields[i], value |-> updates[fields[i]]]]

InitWriters ==
  /\ store \in WriterStores
  /\ governments = <<>>
  /\ writers \in {[w \in 1..n |-> Idle] : n \in 1..MaxWriters}
  /\ returned = <<>>
  /\ call = NULL

\* The writer enters an operation that does not throw on the store as it
\* is: entity.update computes the updates; remove goes on to deleteRecord.
WriterPrepares(w) ==
  /\ writers[w].pc = "idle"
  /\ \E op \in WriterOps :
       /\ operationOutcome(store, governments, op).result \in {"ok", "true"}
       /\ writers' = [writers EXCEPT ![w] =
                        [pc |-> "prepared", op |-> op,
                         updates |-> preparedUpdates(store, governments, op),
                         records |-> <<>>]]
  /\ UNCHANGED <<store, governments, returned, call>>

\* readAll in updateRecord or deleteRecord.
WriterReads(w) ==
  /\ writers[w].pc = "prepared"
  /\ writers' = [writers EXCEPT ![w].pc = "read", ![w].records = readAll(store)]
  /\ UNCHANGED <<store, governments, returned, call>>

\* writeAll in updateRecord or deleteRecord, when the record was among
\* those read, and the return of the operation.
WriterWrites(w) ==
  /\ writers[w].pc = "read"
  /\ IF exists(writers[w].records, writers[w].op.id)
     THEN /\ store' = IF writers[w].op.kind = "remove"
                      THEN deleteRecord(writers[w].records, writers[w].op.id)
                      ELSE updateRecord(writers[w].records, writers[w].op.id,
                                        writers[w].updates)
          /\ returned' = returnedAfter(writers[w].op, writers[w].updates)
     ELSE UNCHANGED <<store, returned>>
  /\ writers' = [writers EXCEPT ![w] = Idle]
  /\ Within(MaxWriterChanges)
  /\ UNCHANGED <<governments, call>>

Prepare == \E w \in DOMAIN writers : WriterPrepares(w)

ReadRecords == \E w \in DOMAIN writers : WriterReads(w)

WriteRecords == \E w \in DOMAIN writers : WriterWrites(w)

NextWriters ==
  \/ Prepare
  \/ ReadRecords
  \/ WriteRecords

SpecWriters == InitWriters /\ [][NextWriters]_vars

(***************************************************************************)
(* The dependency graph, defined from the stored edges alone.              *)
(***************************************************************************)
DependencyTypes == {"depends_on", "requires", "blocks"}

\* <<source, target>> for every stored depends_on / requires / blocks edge.
DependencyEdges(s) ==
  UNION {{<<s[i].id, s[i].relations[j].target>> :
            j \in {k \in DOMAIN s[i].relations :
                     s[i].relations[k].type \in DependencyTypes}} :
         i \in DOMAIN s}

Successors(edges, nodes) == {e[2] : e \in {d \in edges : d[1] \in nodes}}

RECURSIVE Closure(_, _)
Closure(edges, nodes) ==
  IF Successors(edges, nodes) \subseteq nodes THEN nodes
  ELSE Closure(edges, nodes \cup Successors(edges, nodes))

\* The identifiers reachable from `from` along zero or more dependency edges.
ReachableFrom(s, from) == Closure(DependencyEdges(s), {from})

\* ... along one or more dependency edges.
ReachableBeyond(s, from) ==
  Closure(DependencyEdges(s), Successors(DependencyEdges(s), {from}))

HasEdge(s, src, t, tgt) == exists(s, src) /\ includes(find(s, src).relations, Edge(t, tgt))

\* Every edge the entity holds points at a stored entity.
NoDanglingEdge(s, src) ==
  \A j \in DOMAIN find(s, src).relations : exists(s, find(s, src).relations[j].target)

\* C1: link(S, t, T) with a dependency type and S # T fails with the cycle
\* error exactly when S is reachable from T along stored dependency edges;
\* a depends_on link the cycle check lets through, between two stored
\* actions of which the source holds no such edge yet and no edge to a
\* removed entity, succeeds.
C1_CycleErrorIffReachable ==
  \A S \in LinkedIds, T \in LinkedIds, t \in DependencyTypes :
    S # T =>
      /\ (link(store, governments, S, t, T).result = "WouldCreateCycle")
           <=> (S \in ReachableFrom(store, T))
      /\ (/\ S \notin ReachableFrom(store, T)
          /\ t = "depends_on"
          /\ exists(store, S) /\ find(store, S).type = "action"
          /\ exists(store, T) /\ find(store, T).type = "action"
          /\ ~HasEdge(store, S, t, T)
          /\ NoDanglingEdge(store, S))
         => link(store, governments, S, t, T).result = "ok"

\* A depends_on B is stored, link(B, depends_on, A) is refused as a cycle
\* and link(B, depends_on, C) for an unrelated C succeeds.
C1_Witness ==
  \E A \in StoreIds, B \in StoreIds, C \in StoreIds :
    /\ HasEdge(store, A, "depends_on", B)
    /\ link(store, governments, B, "depends_on", A).result = "WouldCreateCycle"
    /\ C \notin {A, B}
    /\ link(store, governments, B, "depends_on", C).result = "ok"

\* C2: the stored dependency edges form no cycle.
C2_Acyclic ==
  \A i \in DOMAIN store : store[i].id \notin ReachableBeyond(store, store[i].id)

\* A chain A -> B -> C is stored and the link that would close it is refused.
C2_Witness ==
  \E A \in StoreIds, B \in StoreIds, C \in StoreIds :
    /\ A # B /\ B # C /\ A # C
    /\ <<A, B>> \in DependencyEdges(store)
    /\ <<B, C>> \in DependencyEdges(store)
    /\ link(store, governments, C, "depends_on", A).result = "WouldCreateCycle"


\* The relation types callers name, declared or not.
AnyRelationTypes == DOMAIN RELATION_TYPES \cup {"mentors"}

\* C3: link(X, t, X) fails for every identifier and every relation type,
\* stored or not, and leaves the store unchanged.
C3_SelfLinkRejected ==
  \A X \in IdInputs, t \in AnyRelationTypes :
    /\ link(store, governments, X, t, X).result = "SelfReference"
    /\ link(store, governments, X, t, X).store = store

\* A stored idea for which only the self-reference check of link stands
\* between the call and a stored self-loop.
C3_Witness ==
  \E X \in StoreIds :
    /\ addRelation(store, governments, X, "complements", X).result = "ok"
    /\ link(store, governments, X, "complements", X).result = "SelfReference"

\* C4: no entity's relations array holds an edge to the entity itself.
C4_NoSelfLoop ==
  \A i \in DOMAIN store : \A j \in DOMAIN store[i].relations :
    store[i].relations[j].target # store[i].id

\* C5: no entity's relations array holds the same (type, target) twice.
C5_NoDuplicateEdge ==
  \A i \in DOMAIN store : \A j \in DOMAIN store[i].relations :
    \A k \in DOMAIN store[i].relations :
      j # k => store[i].relations[j] # store[i].relations[k]

\* The declared (from, to) pair of a relation type.
DeclaredFrom(t) == IF t \in DOMAIN RELATION_TYPES THEN RELATION_TYPES[t].from ELSE "none"

DeclaredTo(t) == IF t \in DOMAIN RELATION_TYPES THEN RELATION_TYPES[t].to ELSE "none"

\* C6: every stored edge whose target is stored joins a source and a target
\* of the types declared for the edge's relation type.
C6_TypedEdges ==
  \A i \in DOMAIN store : \A j \in DOMAIN store[i].relations :
    \A k \in DOMAIN store :
      store[k].id = store[i].relations[j].target =>
        /\ store[i].type = DeclaredFrom(store[i].relations[j].type)
        /\ store[k].type = DeclaredTo(store[i].relations[j].type)

\* An entity created with an inline edge whose target now stands after it in
\* the file: the target was removed and an entity was created again under
\* the same identifier.
C6_Witness ==
  \E i \in DOMAIN store, k \in DOMAIN store :
    /\ i < k
    /\ Len(store[i].history) = 1
    /\ \E j \in DOMAIN store[i].relations : store[i].relations[j].target = store[k].id

\* An edge (source type, t, T) the relation validator must reject.
InvalidEdge(s, sourceType, t, T) ==
  \/ DeclaredFrom(t) = "none"
  \/ DeclaredFrom(t) # sourceType
  \/ ~exists(s, T)
  \/ find(s, T).type # DeclaredTo(t)

\* C7: an invalid edge is rejected by link and by create with the edge
\* inline, and the store is left as it was.
C7_InvalidEdgeRejected ==
  \A t \in AnyRelationTypes, T \in IdInputs :
    /\ \A S \in StoreIds :
         InvalidEdge(store, find(store, S).type, t, T) =>
           /\ link(store, governments, S, t, T).result # "ok"
           /\ link(store, governments, S, t, T).store = store
    /\ \A type \in EntityTypeInputs :
         InvalidEdge(store, type, t, T) =>
           \A o \in create(store, governments, type,
                           [title |-> "pothole", relations |-> <<Edge(t, T)>>]) :
             o.result # "ok" /\ o.store = store

\* link(problemId, "addresses", goalId) is refused because addresses is
\* declared from idea.
C7_Witness ==
  \E P \in StoreIds, G \in StoreIds :
    /\ find(store, P).type = "problem"
    /\ find(store, G).type = "goal"
    /\ link(store, governments, P, "addresses", G).result = "InvalidSourceType"

\* C8 as claimed: while S holds the edge (t, T), link(S, t, T) fails with the
\* duplicate-edge error.
C8_SecondLinkIsDuplicateError ==
  \A S \in StoreIds, t \in LinkedRelationTypes, T \in LinkedIds :
    HasEdge(store, S, t, T) =>
      link(store, governments, S, t, T).result = "RelationExists"

\* C8 amended: while S holds the edge (t, T), link(S, t, T) fails and leaves
\* the store as it was; the error is the duplicate-edge error when T is
\* still stored and no dependency path leads from T back to S.
C8_SecondLinkFails ==
  \A S \in StoreIds, t \in LinkedRelationTypes, T \in LinkedIds :
    HasEdge(store, S, t, T) =>
      /\ link(store, governments, S, t, T).result # "ok"
      /\ link(store, governments, S, t, T).store = store
      /\ (exists(store, T) /\ S \notin ReachableFrom(store, T))
           => link(store, governments, S, t, T).result = "RelationExists"
      /\ (~exists(store, T) /\ S \notin ReachableFrom(store, T))
           => link(store, governments, S, t, T).result = "TargetNotFound"

\* An edge stored by link whose target is still stored.
C8_Witness ==
  \E S \in StoreIds, T \in StoreIds :
    /\ HasEdge(store, S, "depends_on", T)
    /\ link(store, governments, S, "depends_on", T).result = "RelationExists"

BlockedTerminalStatuses ==
  {"completed", "resolved", "accepted", "cancelled", "deprecated", "rejected"}

\* The stored depends_on targets of id whose status is not terminal.
UnresolvedTargets(s, id) ==
  IF ~exists(s, id) THEN {}
  ELSE {tgt \in {find(s, id).relations[j].target :
                   j \in {k \in DOMAIN find(s, id).relations :
                            find(s, id).relations[k].type = "depends_on"}} :
          exists(s, tgt) /\ find(s, tgt).status \notin BlockedTerminalStatuses}

\* C9: isBlocked(id).blocked holds exactly when some depends_on target of id
\* is stored with a non-terminal status, and blockers lists those targets.
C9_BlockedIffUnresolved ==
  \A id \in LinkedIds :
    /\ isBlocked(store, id).blocked <=> (UnresolvedTargets(store, id) # {})
    /\ {isBlocked(store, id).blockers[i].id :
          i \in DOMAIN isBlocked(store, id).blockers} = UnresolvedTargets(store, id)

\* An action blocked by a dependency that is in progress.
C9_Witness ==
  \E A \in StoreIds, B \in StoreIds :
    /\ HasEdge(store, A, "depends_on", B)
    /\ find(store, B).status = "in_progress"
    /\ isBlocked(store, A).blocked

ClosedStatuses ==
  {"resolved", "completed", "cancelled", "deprecated", "rejected", "superseded"}

\* C10: closed_at is set exactly when the status is a closed one.
C10_ClosedAtIffTerminal ==
  \A i \in DOMAIN store :
    (store[i].closed_at # NULL) <=> (store[i].status \in ClosedStatuses)

(***************************************************************************)
(* Closing, statuses and defaults.                                         *)
(***************************************************************************)
AllCloseOptions == {[rejected |-> r, cancelled |-> c] : r \in BOOLEAN, c \in BOOLEAN}

\* The terminal status close is to give an entity of the type.
CanonicalStatus(type, options) ==
  CASE type = "goal" -> "deprecated"
    [] type = "problem" -> "resolved"
    [] type = "idea" -> IF options.rejected THEN "rejected" ELSE "accepted"
    [] type = "action" -> IF options.cancelled THEN "cancelled" ELSE "completed"

\* C11: close of a stored entity leaves it in the canonical terminal status
\* of its type with closed_at set.
C11_CloseSetsClosedAt ==
  \A id \in StoreIds, options \in AllCloseOptions :
    LET after == find(close(store, governments, id, options).store, id)
    IN  /\ after.status = CanonicalStatus(after.type, options)
        /\ after.closed_at # NULL

\* The status values callers pass: every declared status and an undeclared one.
StatusValues ==
  UNION {Range(ENTITY_STATUSES[type]) : type \in DOMAIN ENTITY_STATUSES} \cup {"done"}

StatusesOf(type) == Range(ENTITY_STATUSES[type])

ValidPriorities ==
  {Number(n) : n \in PRIORITIES} \cup {String("P0"), String("p4"), String("3")}

\* create data with a valid title and priority and no status.
DefaultStatusInputs ==
  {[title |-> title] : title \in {"pothole", " pothole "}}
  \cup {[title |-> title, priority |-> priority] :
          title \in {"pothole", " pothole "}, priority \in ValidPriorities}

\* The identifier of the record a successful create appended.
CreatedId(o) == o.store[Len(o.store)].id

\* C13: create without a status succeeds, and find of the identifier it
\* returns, when create was handed one not yet stored, gives an entity in
\* the first status of its type.
C13_DefaultStatus ==
  \A type \in Range(ENTITY_TYPES), data \in DefaultStatusInputs :
    \A o \in create(store, governments, type, data) :
      /\ o.result = "ok"
      /\ ~exists(store, CreatedId(o))
           => find(o.store, CreatedId(o)).status = ENTITY_STATUSES[type][1]

\* A stored idea, created without a status, that find returns as proposed.
C13_Witness ==
  \E i \in DOMAIN store :
    /\ store[i].type = "idea"
    /\ Len(store[i].history) = 1
    /\ find(store, store[i].id) = store[i]
    /\ store[i].status = "proposed"

(***************************************************************************)
(* History.                                                                *)
(***************************************************************************)
TrackedFields == {"title", "status", "priority", "gov_id", "relations"}

\* Updates of one tracked field, and of several at once.
TrackedUpdateInputs ==
  {[title |-> t] : t \in {"crater", " pothole "}}
  \cup {[status |-> st] : st \in {"acknowledged", "rejected", "resolved"}}
  \cup {[priority |-> pr] : pr \in {Number(2), Number(3), String("P1")}}
  \cup {[gov_id |-> ref] : ref \in GovernmentRefs \cup {NULL}}
  \cup {[relations |-> r] :
          r \in {<<>>} \cup {<<Edge("addresses", tgt)>> : tgt \in IdsOfType("problem")}}
  \cup {[title |-> "crater", priority |-> String("P1"), gov_id |-> ref] :
          ref \in GovernmentRefs}
  \cup {[title |-> "crater", status |-> st, body |-> "deep"] :
          st \in {"acknowledged", "rejected"}}

\* The entries of `after` beyond those of `before`.
Appended(before, after) ==
  SubSeq(after.history, Len(before.history) + 1, Len(after.history))

\* C14: a successful update keeps the history it found as a prefix, and for
\* every tracked field whose value it changes appends exactly one entry of
\* that field, holding the value before and the value after.
C14_OneEntryPerChangedField ==
  \A id \in StoreIds, updates \in TrackedUpdateInputs :
    LET before == find(store, id)
        o == update(store, governments, id, updates)
        after == find(o.store, id)
        entries == Appended(before, after)
    IN  o.result = "ok" =>
          /\ Len(after.history) >= Len(before.history)
          /\ SubSeq(after.history, 1, Len(before.history)) = before.history
          /\ \A f \in TrackedFields :
               before[f] # after[f] =>
                 /\ Cardinality({k \in DOMAIN entries : entries[k].field = f}) = 1
                 /\ \A k \in DOMAIN entries :
                      entries[k].field = f =>
                        /\ entries[k].old_value = before[f]
                        /\ entries[k].new_value = after[f]

\* An entity already assigned to a government, with that change in its
\* history, for which one update changes title, priority and assignment
\* and appends three entries.
C14_Witness ==
  \E id \in StoreIds :
    LET before == find(store, id)
        o == update(store, governments, id,
                    [title |-> "crater", priority |-> String("P1"), gov_id |-> NULL])
    IN  /\ before.gov_id # NULL
        /\ Len(before.history) = 2
        /\ o.result = "ok"
        /\ Len(find(o.store, id).history) = 5
        /\ find(o.store, id).gov_id = NULL

MutableFields == {"title", "body", "status", "priority", "gov_id", "relations"}

\* C15: a step that changes the title, body, status, priority, government
\* assignment or relations of a stored entity lengthens that entity's
\* history.
C15_MutationAppendsHistory ==
  [][\A i \in DOMAIN store :
       (/\ i \in DOMAIN store'
        /\ store'[i].id = store[i].id
        /\ \E f \in MutableFields : store'[i][f] # store[i][f])
       => Len(store'[i].history) > Len(store[i].history)]_vars

(***************************************************************************)
(* Failing calls.                                                          *)
(***************************************************************************)
\* A result that stands for a thrown error: not a returned entity ("ok"),
\* null or a boolean.
IsError(result) == result \notin {"ok", "null", "true", "false"}

\* Arguments that fail each validation of create and update, and some that
\* pass them all.
FailingFieldInputs ==
  {[title |-> ""],
   [title |-> "pothole"],
   [title |-> "pothole", priority |-> Number(7)],
   [title |-> "pothole", priority |-> String("high")],
   [title |-> "pothole", gov_id |-> "nowhere"],
   [title |-> "pothole", status |-> "done"],
   [title |-> "pothole", status |-> "resolved"]}
  \cup {[title |-> "pothole", relations |-> <<e>>, status |-> st] :
          e \in EdgeInputs \cup {Edge("mentors", "gd-a1b2")}, st \in {"done", "rejected"}}

FailingCreateInputs == FailingFieldInputs \cup {[body |-> "deep"]}

C16_CreateErrorChangesNothing ==
  \A type \in Range(ENTITY_TYPES) \cup {"task"}, data \in FailingCreateInputs :
    \A o \in create(store, governments, type, data) :
      IsError(o.result) => o.store = store

C16_UpdateErrorChangesNothing ==
  \A id \in IdInputs, updates \in FailingFieldInputs :
    IsError(update(store, governments, id, updates).result)
      => update(store, governments, id, updates).store = store

C16_LinkErrorChangesNothing ==
  \A S \in IdInputs, t \in RelationTypeInputs \cup {"depends_on", "mentors"},
     T \in IdInputs :
    /\ IsError(link(store, governments, S, t, T).result)
         => link(store, governments, S, t, T).store = store
    /\ IsError(unlink(store, governments, S, t, T).result)
         => unlink(store, governments, S, t, T).store = store

C16_CloseErrorChangesNothing ==
  \A id \in IdInputs :
    /\ \A options \in AllCloseOptions :
         IsError(close(store, governments, id, options).result)
           => close(store, governments, id, options).store = store
    /\ \A u \in SupporterIds \cup {"bob"} :
         IsError(addSupport(store, governments, id, u).result)
           => addSupport(store, governments, id, u).store = store

\* C16: when create, update, link, unlink, close or addSupport raises an
\* error, the store after the call is the store before it.
C16_ErrorsChangeNothing ==
  /\ C16_CreateErrorChangesNothing
  /\ C16_UpdateErrorChangesNothing
  /\ C16_LinkErrorChangesNothing
  /\ C16_CloseErrorChangesNothing

\* A create whose title and inline relation are valid and whose status is
\* not: it fails at the last validation and stores nothing; and an update
\* and an unlink that fail on a stored entity.
C16_Witness ==
  \E P \in StoreIds, D \in StoreIds :
    /\ find(store, P).type = "problem"
    /\ find(store, D).type = "idea"
    /\ \A o \in create(store, governments, "idea",
                        [title |-> "pothole",
                         relations |-> <<Edge("addresses", P)>>,
                         status |-> "done"]) :
         o.result = "InvalidStatus" /\ o.store = store
    /\ update(store, governments, D,
              [title |-> "pothole", priority |-> Number(7)]).result = "InvalidPriority"
    /\ unlink(store, governments, D, "addresses", P).result = "RelationNotFound"

(***************************************************************************)
(* remove and unlink.                                                      *)
(***************************************************************************)
\* The number of records before position i that carry the id.
RemovedBefore(s, id, i) == Cardinality({j \in 1..(i - 1) : s[j].id = id})

\* C17: remove(id) returns true exactly when a record with the id is
\* stored; it takes that one record out of the store and leaves every other
\* record as it was and in order, edges to id included; afterwards find(id)
\* finds nothing.
C17_RemoveDeletesOnlyTheRecord ==
  \A id \in IdInputs :
    LET o == remove(store, id) IN
      /\ (o.result = "true") <=> exists(store, id)
      /\ o.result \in {"true", "false"}
      /\ Len(o.store) = Len(store) - (IF exists(store, id) THEN 1 ELSE 0)
      /\ \A i \in DOMAIN store :
           store[i].id # id => o.store[i - RemovedBefore(store, id, i)] = store[i]
      /\ ~exists(o.store, id)

\* An entity holds an edge to an identifier that is no longer stored, and
\* an entity holds an edge to a stored one whose removal leaves the edge.
C17_Witness ==
  /\ \E i \in DOMAIN store : \E j \in DOMAIN store[i].relations :
       /\ ~exists(store, store[i].relations[j].target)
       /\ remove(store, store[i].relations[j].target).result = "false"
  /\ \E i \in DOMAIN store : \E j \in DOMAIN store[i].relations :
       LET T == store[i].relations[j].target IN
         /\ exists(store, T)
         /\ T # store[i].id
         /\ find(remove(store, T).store, store[i].id).relations = store[i].relations

\* C18: unlink(S, t, T) on a stored source that holds the edge (t, T)
\* succeeds and leaves S.relations as they were with that edge taken out,
\* the others unchanged and in order; when S holds no such edge it fails
\* with the not-found error and the store stays as it was.
C18_UnlinkRemovesEdge ==
  \A S \in StoreIds, t \in LinkedRelationTypes, T \in LinkedIds :
    LET o == unlink(store, governments, S, t, T) IN
      IF HasEdge(store, S, t, T)
      THEN /\ o.result = "ok"
           /\ find(o.store, S).relations =
                SelectSeq(find(store, S).relations, LAMBDA r : r # Edge(t, T))
      ELSE /\ o.result = "RelationNotFound"
           /\ o.store = store

\* The same with every other edge of S pointing at a stored entity.
C18_UnlinkWithoutDanglingEdge ==
  \A S \in StoreIds, t \in LinkedRelationTypes, T \in LinkedIds :
    NoDanglingEdge(store, S) => 
      LET o == unlink(store, governments, S, t, T) IN
        IF HasEdge(store, S, t, T)
        THEN /\ o.result = "ok"
             /\ find(o.store, S).relations =
                  SelectSeq(find(store, S).relations, LAMBDA r : r # Edge(t, T))
        ELSE /\ o.result = "RelationNotFound"
             /\ o.store = store

(***************************************************************************)
(* Support of ideas.                                                       *)
(***************************************************************************)
\* C19: in every reachable state the support_count of every stored idea is
\* the number of distinct identifiers in its supporters.
C19_SupportCountIsSupporters ==
  \A i \in DOMAIN store :
    store[i].type = "idea" =>
      store[i].support_count = Cardinality(Range(store[i].supporters))

\* create of an idea without supporters and support_count in its data
\* stores no supporters and a count of 0.
C19_CreateStartsAtZero ==
  \A o \in create(store, governments, "idea", [title |-> "pothole"]) :
    o.result = "ok" =>
      /\ o.store[Len(o.store)].supporters = <<>>
      /\ o.store[Len(o.store)].support_count = 0

SupporterInputs == {"alice", "bob"}

\* C20: addSupport on a stored entity that is not an idea, or with a
\* supporter the idea already lists, fails and leaves the store as it was;
\* on a stored idea that does not list the supporter it succeeds, appends
\* the supporter to supporters and raises support_count by exactly one, and
\* a second call with the same supporter then fails and changes nothing.
C20_AddSupportOnce ==
  \A id \in StoreIds, u \in SupporterInputs :
    LET e == find(store, id)
        o == addSupport(store, governments, id, u)
    IN  IF e.type # "idea"
        THEN o.result = "NotAnIdea" /\ o.store = store
        ELSE IF includes(e.supporters, u)
        THEN o.result = "AlreadySupported" /\ o.store = store
        ELSE /\ o.result = "ok"
             /\ find(o.store, id).supporters = Append(e.supporters, u)
             /\ find(o.store, id).support_count = e.support_count + 1
             /\ \A j \in DOMAIN store :
                  store[j].id # id => o.store[j] = store[j]
             /\ LET again == addSupport(o.store, governments, id, u) IN
                  again.result = "AlreadySupported" /\ again.store = o.store

\* A stored idea lists alice: supporting it as alice fails, as bob succeeds;
\* a stored problem cannot be supported.
C20_Witness ==
  /\ \E id \in StoreIds :
       /\ find(store, id).type = "idea"
       /\ includes(find(store, id).supporters, "alice")
       /\ addSupport(store, governments, id, "alice").result = "AlreadySupported"
       /\ addSupport(store, governments, id, "bob").result = "ok"
  /\ \E id \in StoreIds :
       /\ find(store, id).type = "problem"
       /\ addSupport(store, governments, id, "alice").result = "NotAnIdea"

(***************************************************************************)
(* Graph queries.                                                          *)
(***************************************************************************)
\* The number of stored relations of a dependency type.
RECURSIVE DependencyElements(_)
DependencyElements(s) ==
  IF s = <<>> THEN 0
  ELSE Len(SelectSeq(Head(s).relations, LAMBDA rel : rel.type \in DependencyTypes))
       + DependencyElements(Tail(s))

\* The stored entities reachable from id along dependency edges.
ReachableEntities(s, id) == {s[i] : i \in {k \in DOMAIN s : s[k].id \in ReachableFrom(s, id)}}

HasDependencyCycle(s) == \E i \in DOMAIN s : s[i].id \in ReachableBeyond(s, s[i].id)

C22_HasDangling ==
  \E i \in DOMAIN store : \E j \in DOMAIN store[i].relations :
    /\ store[i].relations[j].type \in DependencyTypes
    /\ ~exists(store, store[i].relations[j].target)
    /\ Len(getTransitiveDependencies(store, store[i].id)) = 1

\* The number of dependency relations stored on entities with an id in
\* nodeIds whose target is in nodeIds too.
RECURSIVE InnerDependencyElements(_, _)
InnerDependencyElements(s, nodeIds) ==
  IF s = <<>> THEN 0
  ELSE (IF Head(s).id \in nodeIds
        THEN Len(SelectSeq(Head(s).relations, LAMBDA rel :
                   rel.type \in DependencyTypes /\ rel.target \in nodeIds))
        ELSE 0)
       + InnerDependencyElements(Tail(s), nodeIds)

RootInputs == IdInputs \cup {NULL}

C21_DanglingLeftOut ==
  \E i \in DOMAIN store : \E j \in DOMAIN store[i].relations :
    /\ store[i].relations[j].type \in DependencyTypes
    /\ ~exists(store, store[i].relations[j].target)
    /\ \A graph \in getDependencyGraph(store, store[i].id) : graph.edges = <<>>

\* The positions of seq whose element satisfies the test.
Positions(seq, Test(_)) == {i \in DOMAIN seq : Test(seq[i])}

\* The number of stored relations whose target is tgt.
RECURSIVE ElementsTo(_, _)
ElementsTo(s, tgt) ==
  IF s = <<>> THEN 0
  ELSE Cardinality(Positions(Head(s).relations, LAMBDA r : r.target = tgt))
       + ElementsTo(Tail(s), tgt)

\* C23: for stored entities X and Y and every relation type t, the incoming
\* list of getRelations(Y) has one entry {type: t, source: X} for each
\* element (t, Y) of X.relations and no other entry, and the outgoing list
\* of getRelations(X) is X.relations in stored order; an edge is in the
\* outgoing list of X iff it is in the incoming list of Y.
C23_IncomingMirrorsOutgoing ==
  \A X \in StoreIds, Y \in StoreIds :
    LET ofX == getRelations(store, X)
        ofY == getRelations(store, Y)
    IN  /\ ofX.result = "ok" /\ ofY.result = "ok"
        /\ [i \in DOMAIN ofX.outgoing |->
              [type |-> ofX.outgoing[i].type, target |-> ofX.outgoing[i].target]]
             = find(store, X).relations
        /\ \A t \in DOMAIN RELATION_TYPES :
             /\ Cardinality(Positions(ofY.incoming,
                               LAMBDA e : e.type = t /\ e.source = X))
                  = Cardinality(Positions(find(store, X).relations,
                                  LAMBDA r : r = Edge(t, Y)))
             /\ (\E i \in DOMAIN ofX.outgoing :
                    ofX.outgoing[i].type = t /\ ofX.outgoing[i].target = Y)
                  <=> (\E i \in DOMAIN ofY.incoming :
                         ofY.incoming[i].type = t /\ ofY.incoming[i].source = X)
        /\ Len(ofY.incoming) = ElementsTo(store, Y)
        /\ \A i \in DOMAIN ofY.incoming :
             /\ exists(store, ofY.incoming[i].source)
             /\ ofY.incoming[i].sourceEntity = find(store, ofY.incoming[i].source)
             /\ ofY.incoming[i].type \in DOMAIN RELATION_TYPES

\* X holds the same edge to another stored entity Y twice: Y has two
\* incoming entries from X.
C23_Witness ==
  \E X \in StoreIds, Y \in StoreIds :
    /\ X # Y
    /\ \E j, k \in DOMAIN find(store, X).relations :
         /\ j # k
         /\ find(store, X).relations[j].target = Y
         /\ find(store, X).relations[k].target = Y
    /\ Len(getRelations(store, Y).incoming) = 2
    /\ Len(getRelations(store, X).outgoing) = 2

\* The graphs the two projections can return, over every root.
StoreGraphs ==
  UNION {getDependencyGraph(store, rootId) : rootId \in RootInputs}
  \cup getGraphData(store)

\* C24: an edge that S still holds to a removed entity appears neither in
\* the outgoing list of getRelations(S) nor among the edges of
\* getDependencyGraph or getGraphData.
C24_DanglingEdgeSkipped ==
  \A S \in StoreIds :
    \A j \in DOMAIN find(store, S).relations :
      LET rel == find(store, S).relations[j] IN
        ~exists(store, rel.target) =>
          /\ \A i \in DOMAIN getRelations(store, S).outgoing :
               getRelations(store, S).outgoing[i].target # rel.target
          /\ \A graph \in StoreGraphs :
               \A e \in Range(graph.edges) : e.target # rel.target

\* The part of C24 on the two graph projections.
C24_GraphsSkipDanglingEdge ==
  \A S \in StoreIds :
    \A j \in DOMAIN find(store, S).relations :
      LET rel == find(store, S).relations[j] IN
        ~exists(store, rel.target) =>
          \A graph \in StoreGraphs :
            \A e \in Range(graph.edges) : e.target # rel.target

\* getRelations lists an edge to a removed entity, with no target entity.
C24_OutgoingListsDanglingEdge ==
  \A S \in StoreIds :
    \A j \in DOMAIN find(store, S).relations :
      ~exists(store, find(store, S).relations[j].target) =>
        /\ getRelations(store, S).outgoing[j].target = find(store, S).relations[j].target
        /\ getRelations(store, S).outgoing[j].targetEntity = NULL

(***************************************************************************)
(* Identifiers and slugs.                                                  *)
(***************************************************************************)
\* C25: the identifier generateId returns to create is never one that the
\* existence check reports, so that no two stored records share an id
\* after any sequence of create and remove.
C25_IdsCollisionChecked ==
  /\ \A i, j \in DOMAIN store : store[i].id = store[j].id => i = j
  /\ \A type \in IdTypes :
       \A id \in generateId(getPrefixForType(type), StoreIds) : id \notin StoreIds

\* The identifier of an attempt inside the loop is one the existence check
\* does not report: only the fallback identifier can be a stored one.
C25_CheckedBeforeFallback ==
  \A type \in IdTypes :
    \A id \in generateId(getPrefixForType(type), StoreIds) :
      id \in StoreIds =>
        id \in {getPrefixForType(type) \o "-" \o h : h \in HexHashes(fallbackHashLength)}

\* base-k.
CounterSlug(base, k) == base \o "-" \o ToString(k)

\* k is the smallest counter from 2 on whose slug is not taken.
SmallestFree(base, taken, k) ==
  /\ CounterSlug(base, k) \notin taken
  /\ \A j \in slugCounterStart..(k - 1) : CounterSlug(base, j) \in taken

\* The slug government.create stores for the data on the government store g.
CreatedSlugs(g, data) ==
  {o.store[Len(o.store)].slug : o \in {c \in governmentCreate(g, data) : c.result = "ok"}}

GovernmentSlugs == {governments[i].slug : i \in DOMAIN governments}

C26_AllCountersTaken ==
  /\ call.result # NULL
  /\ CounterSlugs(call.baseSlug) \subseteq call.taken

(***************************************************************************)
(* Similarity and classification of texts.                                 *)
(***************************************************************************)
\* The word tokens of a text: its maximal runs of characters other than
\* whitespace, in lower case and without punctuation, those of which
\* nothing is left not counted.
WordTokens(text) == Range(splitWhitespace(normalizeText(text))) \ {""}

SameNumber(x, y) == x.num * y.den = y.num * x.den

\* C27: calculateSimilarity(a, b) is |A \cap B| / |A \cup B| over the sets
\* A and B of word tokens of a and b (0 when the union is empty); it is
\* symmetric; it is 1 when A = B is not empty, 0 when A and B are disjoint
\* and 0 when either text is empty.
C27_JaccardOfWordTokens ==
  (call.fn = "calculateSimilarity" /\ call.done) =>
    LET A == WordTokens(call.text1)
        B == WordTokens(call.text2)
    IN  /\ call.result.den > 0
        /\ IF A \cup B = {} THEN call.result.num = 0
           ELSE SameNumber(call.result,
                           Fraction(Cardinality(A \cap B), Cardinality(A \cup B)))
        /\ SameNumber(call.result, calculateSimilarity(call.text2, call.text1))
        /\ (A = B /\ A # {}) => call.result.num = call.result.den
        /\ A \cap B = {} => call.result.num = 0
        /\ (call.text1 = "" \/ call.text2 = "") => call.result.num = 0

\* The same for two texts that each have a word token.
C27_JaccardOfTextsWithWords ==
  (/\ call.fn = "calculateSimilarity" /\ call.done
   /\ WordTokens(call.text1) # {} /\ WordTokens(call.text2) # {}) =>
    LET A == WordTokens(call.text1)
        B == WordTokens(call.text2)
    IN  /\ call.result.den > 0
        /\ SameNumber(call.result,
                      Fraction(Cardinality(A \cap B), Cardinality(A \cup B)))
        /\ SameNumber(call.result, calculateSimilarity(call.text2, call.text1))
        /\ A = B => call.result.num = call.result.den
        /\ A \cap B = {} => call.result.num = 0

\* calculateSimilarity is symmetric, and 0 when either text is empty.
C27_Symmetric ==
  (call.fn = "calculateSimilarity" /\ call.done) =>
    /\ SameNumber(call.result, calculateSimilarity(call.text2, call.text1))
    /\ (call.text1 = "" \/ call.text2 = "") => call.result.num = 0

\* For each type the number of its keywords that occur in the text in
\* lower case.
KeywordMatches(text) ==
  LET lower == toLowerCase(text) IN
    [type \in Range(ENTITY_TYPES) |->
       Cardinality({kw \in Range(TYPE_KEYWORDS[type]) : stringIncludes(lower, kw)})]

Total(matches) ==
  matches["goal"] + matches["problem"] + matches["idea"] + matches["action"]

\* The type is of the highest score, and the first such type in the order
\* goal, problem, idea, action; idea when every score is 0.
FirstOfHighestScore(matches, type) ==
  IF Total(matches) = 0 THEN type = "idea"
  ELSE \E i \in DOMAIN ENTITY_TYPES :
         /\ type = ENTITY_TYPES[i]
         /\ \A j \in DOMAIN ENTITY_TYPES :
              /\ matches[ENTITY_TYPES[j]] <= matches[ENTITY_TYPES[i]]
              /\ j < i => matches[ENTITY_TYPES[j]] < matches[ENTITY_TYPES[i]]

\* C28 as claimed: classifyText returns the first type of the highest
\* score, idea with confidence 0.25 when all scores are 0, and otherwise a
\* confidence equal to the best score divided by the sum of the scores.
C28_ConfidenceIsQuotient ==
  (call.fn = "classifyText" /\ call.done) =>
    LET matches == KeywordMatches(call.text) IN
      /\ FirstOfHighestScore(matches, call.result.type)
      /\ IF Total(matches) = 0 THEN call.result.confidence = 25
         ELSE call.result.confidence * Total(matches)
                = 100 * matches[call.result.type]

\* C28 amended: classifyText returns the first type of the highest score,
\* idea with confidence 0.25 when all scores are 0, and otherwise as
\* confidence the best score divided by the sum of the scores, rounded to
\* the nearest hundredth (a half rounded up).
C28_ConfidenceIsRoundedQuotient ==
  (call.fn = "classifyText" /\ call.done) =>
    LET matches == KeywordMatches(call.text)
        total == Total(matches)
        best == matches[call.result.type]
    IN  /\ FirstOfHighestScore(matches, call.result.type)
        /\ call.result.scores = matches
        /\ IF total = 0 THEN call.result.confidence = 25
           ELSE /\ 2 * call.result.confidence * total <= 200 * best + total
                /\ 2 * call.result.confidence * total > 200 * best - total

\* classifyText has returned for a text in which goal, problem and idea
\* have one keyword each: goal, with confidence 0.33.
C28_Witness ==
  /\ call.fn = "classifyText"
  /\ call.done
  /\ KeywordMatches(call.text)
       = [goal |-> 1, problem |-> 1, idea |-> 1, action |-> 0]
  /\ call.result.type = "goal"
  /\ call.result.confidence = 33

(***************************************************************************)
(* Concurrent writers.                                                     *)
(***************************************************************************)
\* The change of a successful operation is in the store.
Present(s, c) ==
  IF c.field = "removed" THEN ~exists(s, c.id)
  ELSE exists(s, c.id) /\ find(s, c.id)[c.field] = c.value

NoLostChange(s, changes) == \A i \in DOMAIN changes : Present(s, changes[i])

\* C29: with a single writer every change of a successful operation is in
\* the store; a change goes missing only in a step in which a process
\* writes all records back from records it read before the store came to
\* its present contents.
C29_LastWriterWins ==
  [][/\ Len(writers) = 1 => NoLostChange(store', returned')
     /\ (NoLostChange(store, returned) /\ ~NoLostChange(store', returned')) =>
          \E w \in DOMAIN writers :
            /\ writers[w].pc = "read"
            /\ writers'[w].pc = "idle"
            /\ writers[w].records # store
            /\ Len(writers) > 1]_vars

\* Two writers: a link returned success and its edge is not in the store.
C29_Witness ==
  /\ Len(writers) = 2
  /\ \E i \in DOMAIN returned :
       /\ returned[i].field = "relations"
       /\ returned[i].value # <<>>
       /\ exists(store, returned[i].id)
       /\ find(store, returned[i].id).relations = <<>>

\* Two writers: a remove returned success and the record is in the store.
C29_RemovedRecordBack ==
  \E i \in DOMAIN returned :
    returned[i].field = "removed" /\ exists(store, returned[i].id)

\* One writer has made two successful operations.
C29_SingleWriterWitness ==
  /\ Len(writers) = 1
  /\ Len(returned) >= 4
  /\ NoLostChange(store, returned)

(***************************************************************************)
(* New entities.                                                           *)
(***************************************************************************)
\* The data passed to create: no relations, or one inline dependency edge
\* to a stored entity.
NewEntityInputs ==
  {[title |-> "pothole"]}
  \cup {[title |-> "pothole", relations |-> <<Edge(t, tgt)>>] :
          t \in LinkedRelationTypes, tgt \in StoreIds}

Acyclic(s) == \A i \in DOMAIN s : s[i].id \notin ReachableBeyond(s, s[i].id)

\* C30: when create returns, with an identifier that was not in the store,
\* no stored entity holds a relation whose target is the id of the new
\* entity, also after remove calls that left edges to removed entities
\* behind, and the dependency graph is acyclic.
C30_NewEntityHasNoIncomingEdge ==
  \A type \in LinkedTypes, data \in NewEntityInputs :
    \A o \in create(store, governments, type, data) :
      (o.result = "ok" /\ Acyclic(store) /\ ~exists(store, CreatedId(o))) =>
        /\ \A i \in DOMAIN o.store : \A j \in DOMAIN o.store[i].relations :
             o.store[i].relations[j].target # CreatedId(o)
        /\ Acyclic(o.store)

\* The same on stores in which every edge points at a stored entity.
C30_WithoutDanglingEdge ==
  \A type \in LinkedTypes, data \in NewEntityInputs :
    \A o \in create(store, governments, type, data) :
      (/\ o.result = "ok" /\ Acyclic(store)
       /\ \A id \in StoreIds : NoDanglingEdge(store, id)
       /\ \A i, j \in DOMAIN store : store[i].id = store[j].id => i = j
       /\ ~exists(store, CreatedId(o))) =>
        /\ \A i \in DOMAIN o.store : \A j \in DOMAIN o.store[i].relations :
             o.store[i].relations[j].target # CreatedId(o)
        /\ Acyclic(o.store)

====
